---- MODULE Spec2Model ----
(***************************************************************************)
(* Model of the super-parser DASH-to-HLS engine: the main loop of          *)
(* superparser.js (variant selection, playlist bootstrap, key             *)
(* acquisition, segment_saver cycle, expiry check, manifest refresh) and   *)
(* segment_saver (live-edge selection, per-slot pipeline, rolling HLS      *)
(* window) of src/media/drm_engine.js.                                     *)
(*                                                                         *)
(* URIs.  A media segment reference is identified by its number n >= 1;    *)
(* its URI is n, its startTime n-1 and its endTime n (unit duration).  The *)
(* Init segment URI is InitURI and the JavaScript null is NullURI.  The    *)
(* segment index of a track is the window lo..hi of the live stream, with  *)
(* lo = max(1, hi - WindowLen + 1).                                        *)
(***************************************************************************)
EXTENDS Integers, Sequences, FiniteSets, TLC

\* ---------------------------------------------------------------- bounds
MaxId == 6            \* segment numbers the live stream reaches
WindowLen == 4        \* references a segment index holds (time-shift depth)
MaxSegmentNum == 3    \* largest conf.max_segment_num explored
MaxVariants == 5      \* longest manifest.variants list explored
MaxParses == 3        \* manifests one dash_parser gets to parse
MaxOps == 3           \* abortable operations handed to one operation_manager
MaxAborts == 2        \* calls of abort() on one chained operation
MaxElems == 2         \* ContentProtection elements of one element
MaxReps == 3          \* Representations of one AdaptationSet
MaxS == 2             \* S elements of one SegmentTimeline
MaxRefs == 2          \* reference_count of one SIDX box
MaxTicks == 3         \* delayed ticks one timer makes
MaxOnTicks == 3       \* calls of onTick_ followed
MaxListeners == 2     \* functions listening to one event
MaxOnce == 1          \* once() calls followed
MaxBytes == 8         \* byte length of the longest buffer read
MaxBeyond == 2        \* bytes the position is followed beyond the view

\* ------------------------------------------------------------- constants
Tracks == {"audio", "video"}
NullURI == -1
InitURI == 0
NullKey == "null"
Bandwidths == {1, 2}
Languages == {"en", "fr"}
BandwidthOptions == {"low", "mid", "high", "auto"}
LangOptions == {<<"en">>, <<"de", "fr">>}

VARIABLES
  \* configuration (superparser.js:66-75)
  confBandwidth, confLang, maxSegmentNum,
  initSegmentName,   \* segmentName of slot 0: the file name of the Init URL
  \* dash_parser state
  variants,          \* manifest_.variants, records [bandwidth, language]
  manifestExpired,   \* dashParser.manifestExpired
  hi,                \* per track: number of the newest reference of its index
  \* main loop (superparser.js:111-230)
  pc, lowest, highest, bandwidthFilteredList, targetVariant,
  endPlayTime,       \* presentationTimeline.getSegmentAvailabilityEnd()
  mediaPLTemplate,   \* per track: audioMediaPLTemplate / videoMediaPLTemplate
  key, keyId, lastSegmentURI,
  \* segment_saver instance and the locals of download_segments
  segmentUrlList,    \* per track: audioSegmentUrlList_ / videoSegmentUrlList_
  decryptKey,        \* this.decryptKey_
  i, j,              \* slot and track counters of the two loops
  lastURI,           \* per track: lastAudioURI / lastVideoURI
  \* file system: decrypted media files under playlistPath/<track>/
  files,
  \* history (not read by the program)
  emitted,           \* per track: names appended to the playlist, in order
  evictions,         \* per track: entries spliced out of the playlist
  expiredOnEntry,    \* manifestExpired as found at the top of this cycle
  keyFetched,        \* get_decryption_key has returned in this cycle
  cycleSegs,         \* segment downloads started in this cycle
  done,              \* per track: slots completed in this cycle
  expiryFound,       \* the comparison of superparser.js:221 was true
  masterWrites,      \* writes of master.m3u8 (superparser.js:175)
  headerInits,       \* initialisations of the two headers (lines 178-190)
  firstCycle,        \* the main loop is in its first pass
  err,               \* why the process ended, "" while it runs
  \* dash_parser (part_009:106-173)
  updateTimer_,      \* "idle" (no tick pending), "armed" or "null"
  manifestUri_,      \* "null" or "uri"
  manifest_,         \* "null" or "manifest"
  periodCombiner_,   \* "null" or "combiner"
  streamMap_,        \* context id -> [id, segmentIndex]; 0 is a null index
  globalId_,         \* id of the next stream object
  updatePeriod_,     \* -1 when minimumUpdatePeriod is missing
  \* segment_index objects: numbered in order of creation
  indexCount,        \* segment_index objects created so far
  closureIndex,      \* context id -> index held by the latest streamInfo
  released,          \* indexes release() was called on
  \* the asynchronous run (start or onUpdate_) of the parser
  runner,            \* "none", "start" or "onUpdate"
  rpc,               \* the await it is suspended at
  started, stopped,  \* start() has resolved; stop() has been called
  \* history of the parser (not read by the program)
  parses,            \* manifests handed to processManifest_
  lastParse,         \* what the latest processManifest_ found and did
  wasStored,         \* index objects in the stream map when stop() ran
  onUpdateEnd,       \* how the latest run of onUpdate_ ended
  \* operation_manager (operation_manager.js:6-37)
  operations_,       \* this.operations_: sequence of operations
  abortCalls,        \* per operation: calls of abort()
  opPromise,         \* per operation: state of operation.promise
  managed,           \* operations passed to manage()
  finalPending,      \* operations whose finally() callback has not run
  \* content_protection (content_protection.js:26-157)
  context,           \* the Context of the AdaptationSet being parsed
  cpError,           \* code of the error thrown, "" when none
  repsParsed,        \* Representations parsed in this AdaptationSet
  cpHistory,         \* key systems declared so far (not read by the program)
  \* dash_parser.parseRepresentation_ (part_009:938-1000)
  frame,             \* context.representation
  frameIn,           \* the frame as createFrame_ returned it (history)
  verified,          \* "pending", "accepted" or "rejected"
  streams,           \* segment source of each Stream produced so far
  \* mpd_utils.createTimeline (part_008:117-229), times in timescale units
  timePoints,        \* the S elements of the SegmentTimeline
  tlOffset,          \* unscaledPresentationTimeOffset
  periodDuration,    \* the Period's duration, or infinite
  tlIndex,           \* index of the next S element, from 1
  timeline,          \* entries pushed so far: [start, end]
  lastEndTime,       \* end of the entry pushed last
  tlReturned,        \* createTimeline has returned
  \* mp4_segment_index_parser.parseSIDX_ (part_010:71-160)
  box,               \* the SIDX box: size, timescale, first_offset, entries
  sidxOffset,        \* offset of the SIDX in the file
  sidxPc,            \* "header", "loop", "returned" or "thrown"
  references,        \* the SegmentReferences pushed so far
  unscaledStartTime, \* start of the next reference, in timescale units
  startByte,         \* first byte of the next reference
  sidxError,         \* what parseSIDX_ threw, "" when nothing
  \* timer (part_003:7-47)
  ticker_,           \* this.ticker_: the delayed_tick in use, or NoTicker
  ticks,             \* the delayed_tick objects made so far, in order
  onTicks,           \* calls of this.onTick_ so far
  timerStopped,      \* stop() was the last call made on the timer
  timerError,        \* what a timeout callback threw, or the empty string
  \* sp_events_manager (src/util/operation_manager.js:40-99)
  listeners,         \* this.listeners: event name -> array of functions
  onceMade,          \* onceWrapper closures made so far
  lastEmit,          \* the call just made, if an emit: event and functions invoked
  offed,             \* <<event, fn>>: off was called on the one registration of fn
  \* data_view_reader (src/util/string_utils.js:220-433)
  dataView_,         \* this.dataView_: the bytes of the buffer
  littleEndian_,     \* this.littleEndian_
  position_,         \* this.position_
  readerError,       \* what the call just made threw, or the empty string
  \* op2 = op1.chain(onSuccess, onError) (part_002:148-189)
  promise,           \* op1.promise
  aborted_,          \* op1.aborted_
  onError,           \* an onError callback was passed
  callbackRan,       \* the callback chain() registered on op1.promise ran
  abort,             \* the closure variable abort of chain()
  newPromise,        \* op2.promise
  ret,               \* what the callback returned, "none" before
  retPromise,        \* the Promise (or the operation's promise) returned
  \* history of the chain (not read by the program)
  chainCalls,        \* calls of onSuccess, onError and of each abort()
  abortedWhile       \* stages at which op2.abort() found op2.promise open

vars == <<confBandwidth, confLang, maxSegmentNum, initSegmentName, variants,
          manifestExpired, hi, endPlayTime, pc, lowest, highest,
          bandwidthFilteredList, targetVariant, mediaPLTemplate, key, keyId,
          lastSegmentURI, segmentUrlList, decryptKey, i, j, lastURI, files,
          emitted, evictions, expiredOnEntry, keyFetched, cycleSegs, done,
          expiryFound, masterWrites, headerInits, firstCycle, err,
          updateTimer_, manifestUri_, manifest_, periodCombiner_, streamMap_,
          globalId_, updatePeriod_, indexCount, closureIndex, released,
          runner, rpc, started, stopped, parses, lastParse, wasStored,
          onUpdateEnd, operations_, abortCalls, promise, aborted_, onError,
          callbackRan, abort, newPromise, ret, retPromise, chainCalls,
          abortedWhile, opPromise, managed, finalPending, context, cpError,
          repsParsed, cpHistory, frame, frameIn, verified, streams,
          timePoints, tlOffset, periodDuration, tlIndex, timeline,
          lastEndTime, tlReturned, box, sidxOffset, sidxPc, references,
          unscaledStartTime, startByte, sidxError, ticker_, ticks, onTicks,
          timerStopped, timerError, listeners, onceMade, lastEmit, offed,
          dataView_, littleEndian_, position_, readerError>>

confVars == <<confBandwidth, confLang, maxSegmentNum, initSegmentName>>
selVars == <<lowest, highest, bandwidthFilteredList, targetVariant>>
saverVars == <<segmentUrlList, decryptKey, i, j, lastURI>>
hlsVars == <<mediaPLTemplate, files, emitted, evictions>>
cycleVars == <<expiredOnEntry, keyFetched, cycleSegs, done, expiryFound>>
bootVars == <<masterWrites, headerInits, firstCycle>>
parserVars == <<updateTimer_, manifestUri_, manifest_, periodCombiner_,
                streamMap_, globalId_, updatePeriod_, indexCount, closureIndex,
                released, runner, rpc, started, stopped, parses, lastParse,
                wasStored, onUpdateEnd>>
managerVars == <<operations_, abortCalls>>
chainVars == <<promise, aborted_, onError, callbackRan, abort, newPromise, ret,
               retPromise, chainCalls, abortedWhile>>
opVars == <<opPromise, managed, finalPending>>
\* the classes neither the main loop nor dash_parser uses
cpVars == <<context, cpError, repsParsed, cpHistory>>
reprVars == <<frame, frameIn, verified, streams>>
timelineVars == <<timePoints, tlOffset, periodDuration, tlIndex, timeline,
                  lastEndTime, tlReturned>>
sidxVars == <<box, sidxOffset, sidxPc, references, unscaledStartTime,
              startByte, sidxError>>
timerVars == <<ticker_, ticks, onTicks, timerStopped, timerError>>
eventVars == <<listeners, onceMade, lastEmit, offed>>
readerVars == <<dataView_, littleEndian_, position_, readerError>>
extraVars == <<chainVars, opVars, cpVars, reprVars, timelineVars, sidxVars,
               timerVars, eventVars, readerVars>>
\* what the main loop never writes
libVars == <<parserVars, managerVars, extraVars>>
\* what the main loop writes, but for manifestExpired
loopVars == <<confVars, variants, hi, endPlayTime, pc, selVars, key, keyId,
              lastSegmentURI, saverVars, hlsVars, cycleVars, bootVars, err>>
\* what abortable_operation.chain leaves alone
notChainVars == <<loopVars, manifestExpired, parserVars, managerVars, opVars,
                  cpVars, reprVars, timelineVars, sidxVars, timerVars,
                  eventVars, readerVars>>
\* what operation_manager leaves alone
notManagerVars == <<loopVars, manifestExpired, parserVars, chainVars, cpVars,
                    reprVars, timelineVars, sidxVars, timerVars, eventVars,
                    readerVars>>
\* what content_protection leaves alone
notCpVars == <<loopVars, manifestExpired, parserVars, managerVars, chainVars,
               opVars, reprVars, timelineVars, sidxVars, timerVars, eventVars,
               readerVars>>
\* what dash_parser.verifyRepresentation_ leaves alone
notReprVars == <<loopVars, manifestExpired, parserVars, managerVars,
                 chainVars, opVars, cpVars, timelineVars, sidxVars, timerVars,
                 eventVars, readerVars>>
\* what mpd_utils.createTimeline leaves alone
notTimelineVars == <<loopVars, manifestExpired, parserVars, managerVars,
                     chainVars, opVars, cpVars, reprVars, sidxVars, timerVars,
                     eventVars, readerVars>>
\* what mp4_segment_index_parser.parseSIDX_ leaves alone
notSidxVars == <<loopVars, manifestExpired, parserVars, managerVars,
                 chainVars, opVars, cpVars, reprVars, timelineVars, timerVars,
                 eventVars, readerVars>>
\* what timer leaves alone
notTimerVars == <<loopVars, manifestExpired, parserVars, managerVars,
                  chainVars, opVars, cpVars, reprVars, timelineVars, sidxVars,
                  eventVars, readerVars>>
\* what sp_events_manager leaves alone
notEventVars == <<loopVars, manifestExpired, parserVars, managerVars,
                  chainVars, opVars, cpVars, reprVars, timelineVars, sidxVars,
                  timerVars, readerVars>>
\* what data_view_reader leaves alone
notReaderVars == <<loopVars, manifestExpired, parserVars, managerVars,
                   chainVars, opVars, cpVars, reprVars, timelineVars,
                   sidxVars, timerVars, eventVars>>

\* ------------------------------------------------------------ data types
Variant(bw, lang) == [bandwidth |-> bw, language |-> lang]
VariantSet == {Variant(bw, lang) : bw \in Bandwidths, lang \in Languages}

RECURSIVE SeqsUpTo(_, _)
SeqsUpTo(S, n) ==
  IF n = 0 THEN {<<>>}
  ELSE LET shorter == SeqsUpTo(S, n - 1)
       IN shorter \cup {Append(s, x) : s \in {t \in shorter : Len(t) = n - 1}, x \in S}

VariantLists == SeqsUpTo(VariantSet, MaxVariants)

Min(a, b) == IF a < b THEN a ELSE b
Max(a, b) == IF a > b THEN a ELSE b

\* The segment index of a track whose newest reference is h.
Ref(n) == [uri |-> n, startTime |-> n - 1, endTime |-> n]
References(h) ==
  LET lo == Max(1, h - WindowLen + 1)
  IN [k \in 1..(h - lo + 1) |-> Ref(lo + k - 1)]

\* --------------------------------------------------- variant selection
\* superparser.js:120, Array.prototype.sort with (a, b) => a.bandwidth -
\* b.bandwidth: a stable ascending sort.
InsertByBandwidth(sorted, v) ==
  LET k == Cardinality({n \in 1..Len(sorted) : sorted[n].bandwidth <= v.bandwidth})
  IN SubSeq(sorted, 1, k) \o <<v>> \o SubSeq(sorted, k + 1, Len(sorted))

RECURSIVE SortByBandwidth(_)
SortByBandwidth(list) ==
  IF list = <<>> THEN <<>>
  ELSE InsertByBandwidth(SortByBandwidth(SubSeq(list, 1, Len(list) - 1)),
                         list[Len(list)])

\* parseInt(n / 3)
Third(n) == n \div 3

TierLowest(bandwidth, n) ==
  CASE bandwidth = "low" -> 0
    [] bandwidth = "mid" -> Third(n) + 1
    [] bandwidth = "high" -> Third(n) * 2 + 1

TierHighestTwoThirds(bandwidth, n) ==
  CASE bandwidth = "low" -> n \div 3
    [] bandwidth = "mid" -> (2 * n) \div 3
    [] bandwidth = "high" -> n - 1

TierHighest(bandwidth, n) ==
  CASE bandwidth = "low" -> Third(n)
    [] bandwidth = "mid" -> Third(n) * 2
    [] bandwidth = "high" -> n - 1

\* Array.prototype.slice(begin, end) for 0 <= begin, 0 <= end.
Slice(list, begin, end) == SubSeq(list, begin + 1, Min(end, Len(list)))

NullVariant == [bandwidth |-> 0, language |-> "null"]
LangSet(langOpts) == {langOpts[n] : n \in 1..Len(langOpts)}

RECURSIVE LanguageFilterAscending(_, _, _)
LanguageFilterAscending(list, idx, langOpts) ==
  IF idx = 0 THEN NullVariant
  ELSE LET below == LanguageFilterAscending(list, idx - 1, langOpts)
       IN IF below # NullVariant THEN below
          ELSE IF list[idx].language \in LangSet(langOpts) THEN list[idx]
          ELSE NullVariant

\* superparser.js:143-152: scan the tier from its last (highest bandwidth)
\* element down and stop at the first variant whose audio language is one
\* of the configured ones.  idx is the 1-based position scanned next.
RECURSIVE LanguageFilter(_, _, _)
LanguageFilter(list, idx, langOpts) ==
  IF idx = 0 THEN NullVariant
  ELSE IF list[idx].language \in LangSet(langOpts) THEN list[idx]
  ELSE LanguageFilter(list, idx - 1, langOpts)

\* superparser.js:116-157
SelectVariant ==
  /\ pc = "select"
  /\ expiredOnEntry' = manifestExpired
  /\ keyFetched' = FALSE
  /\ cycleSegs' = 0
  /\ done' = [t \in Tracks |-> 0]
  /\ expiryFound' = FALSE
  /\ LET sorted == SortByBandwidth(variants)
         n == Len(sorted)
     IN /\ variants' = sorted
        /\ IF confBandwidth \notin {"low", "mid", "high"}
           THEN /\ pc' = "exited"
                /\ err' = "Bandwidth option invalid!"
                /\ UNCHANGED selVars
           ELSE LET lo == TierLowest(confBandwidth, n)
                    high == TierHighest(confBandwidth, n)
                    filtered == Slice(sorted, lo, high + 1)
                    target == LanguageFilter(filtered, Len(filtered), confLang)
                IN /\ lowest' = lo
                   /\ highest' = high
                   /\ bandwidthFilteredList' = filtered
                   /\ targetVariant' = target
                   /\ IF target = NullVariant
                      THEN /\ pc' = "exited"
                           /\ err' = "No language matching variants..."
                      ELSE /\ pc' = "playlist"
                           /\ err' = err
  /\ UNCHANGED libVars
  /\ UNCHANGED <<bootVars, confVars, manifestExpired, hi, endPlayTime, key, keyId,
                 lastSegmentURI, saverVars, hlsVars>>

\* ------------------------------------------------- playlist bootstrap
Header(n) == [kind |-> "header", seq |-> n, uri |-> NullURI]
Extinf(name) == [kind |-> "extinf", seq |-> 0, uri |-> name]

\* superparser.js:162-191: master playlist and the two media playlist
\* headers, only while both templates are still empty.
PlaylistsEmptyAlways(audioTemplate, videoTemplate) == TRUE

\* superparser.js:162
PlaylistsEmpty(audioTemplate, videoTemplate) ==
  Len(audioTemplate) = 0 /\ Len(videoTemplate) = 0

InitMediaPlaylists ==
  /\ pc = "playlist"
  /\ IF PlaylistsEmpty(mediaPLTemplate["audio"], mediaPLTemplate["video"])
     THEN /\ masterWrites' = masterWrites + 1
          /\ headerInits' = headerInits + 1
          /\ mediaPLTemplate' = [t \in Tracks |-> <<Header(0)>>]
     ELSE UNCHANGED <<masterWrites, headerInits, mediaPLTemplate>>
  /\ pc' = "key"
  /\ UNCHANGED libVars
  /\ UNCHANGED <<firstCycle, confVars, variants, manifestExpired, hi, endPlayTime, selVars,
                 key, keyId, lastSegmentURI, saverVars, files, emitted,
                 evictions, cycleVars, err>>

\* ------------------------------------------------------ key acquisition
\* The answers of the key API: status and whether keys[keyId] is present.
KeyResponses == [status : BOOLEAN, hasKey : BOOLEAN]

\* part_009:58-69: the value get_decryption_key returns for an answer.
DecryptionKeyOf(resp) ==
  IF resp.status
  THEN IF ~resp.hasKey THEN NullKey ELSE "key"
  ELSE NullKey

KeyNeededNever == FALSE

\* superparser.js:194
KeyNeeded == manifestExpired

\* superparser.js:193-200.  The request itself may throw (network error,
\* no Widevine DrmInfo), which ends the process.
GetDecryptionKey ==
  /\ pc = "key"
  /\ IF KeyNeeded
     THEN \/ /\ pc' = "crashed"
             /\ err' = "KEY_REQUEST_FAILED"
             /\ UNCHANGED <<key, keyId, manifestExpired, keyFetched>>
          \/ \E resp \in KeyResponses :
               /\ key' = DecryptionKeyOf(resp)
               /\ keyId' = "kid"
               /\ manifestExpired' = FALSE
               /\ keyFetched' = TRUE
               /\ pc' = "saver"
               /\ err' = err
     ELSE /\ pc' = "saver"
          /\ UNCHANGED <<key, keyId, manifestExpired, keyFetched, err>>
  /\ UNCHANGED libVars
  /\ UNCHANGED <<bootVars, confVars, variants, hi, endPlayTime, selVars, lastSegmentURI,
                 saverVars, hlsVars, expiredOnEntry, cycleSegs, done,
                 expiryFound>>

\* ------------------------------------------------- live-edge selection
\* The matched reference pushed as well (flags updated before the push).
RECURSIVE ScanReferencesInclusive(_, _, _, _, _, _, _)
ScanReferencesInclusive(refs, idx, foundLastestURI, foundStartSegment, last, maxSeg, endPlay) ==
  IF idx > Len(refs) THEN <<>>
  ELSE LET ref == refs[idx]
           latest == foundLastestURI \/ (last # NullURI /\ ref.uri = last)
           start == \/ foundStartSegment
                    \/ /\ last = NullURI
                       /\ idx - 1 < Len(refs) - maxSeg
                       /\ refs[idx + maxSeg].endTime > endPlay
           pushed == IF start \/ latest THEN <<ref.uri>> ELSE <<>>
       IN pushed \o ScanReferencesInclusive(refs, idx + 1, latest, start, last, maxSeg, endPlay)

\* drm_engine.js:127-147 (audio) and 150-172 (video): one pass over the
\* references of the index; idx is the 1-based position of ref, so that
\* refIndex = idx - 1.  Returns the URIs pushed after the Init segment.
RECURSIVE ScanReferences(_, _, _, _, _, _, _)
ScanReferences(refs, idx, foundLastestURI, foundStartSegment, last, maxSeg, endPlay) ==
  IF idx > Len(refs) THEN <<>>
  ELSE LET ref == refs[idx]
           refIndex == idx - 1
           pushed == IF foundStartSegment \/ foundLastestURI
                     THEN <<ref.uri>> ELSE <<>>
           latest == IF last # NullURI
                     THEN foundLastestURI \/ ref.uri = last
                     ELSE foundLastestURI
           start == IF last # NullURI
                    THEN foundStartSegment
                    ELSE \/ foundStartSegment
                         \/ /\ refIndex < Len(refs) - maxSeg
                            /\ refs[refIndex + maxSeg + 1].endTime > endPlay
       IN pushed \o ScanReferences(refs, idx + 1, latest, start, last, maxSeg, endPlay)

\* drm_engine.js:124-126: the Init segment URI first, then the selection.
SegmentUrlList(refs, last, maxSeg, endPlay) ==
  <<InitURI>> \o ScanReferences(refs, 1, FALSE, FALSE, last, maxSeg, endPlay)

\* superparser.js:202-211 and drm_engine.js:116-184
NewSegmentSaver ==
  /\ pc = "saver"
  /\ segmentUrlList' = [t \in Tracks |->
        SegmentUrlList(References(hi[t]), lastSegmentURI[t], maxSegmentNum,
                       endPlayTime)]
  /\ decryptKey' = key
  /\ i' = 0
  /\ j' = 0
  /\ lastURI' = [t \in Tracks |-> NullURI]
  /\ pc' = "download"
  /\ UNCHANGED libVars
  /\ UNCHANGED <<bootVars, confVars, variants, manifestExpired, hi, endPlayTime, selVars,
                 key, keyId, lastSegmentURI, hlsVars, cycleVars, err>>

\* ------------------------------------------------- rolling HLS window
\* drm_engine.js:298-303
SegmentItemList(template) == SelectSeq(template, LAMBDA item : item.kind = "extinf")

\* Array.prototype.indexOf
IndexOf(list, x) == CHOOSE n \in 1..Len(list) :
                      /\ list[n] = x
                      /\ \A m \in 1..(n - 1) : list[m] # x

\* Array.prototype.splice(index, 1)
Splice(list, n) == SubSeq(list, 1, n - 1) \o SubSeq(list, n + 1, Len(list))

BufferFullLate(template, maxSeg) == Len(SegmentItemList(template)) = maxSeg + 1

\* drm_engine.js:304
BufferFull(template, maxSeg) == Len(SegmentItemList(template)) = maxSeg

OldItemNewest(template) ==
  SegmentItemList(template)[Len(SegmentItemList(template))]

\* drm_engine.js:306: the entry shift() takes off segmentItemList
OldItem(template) == Head(SegmentItemList(template))

NewSequenceNumberStale(oldSequenceNumber) == oldSequenceNumber

\* drm_engine.js:316-321
NewSequenceNumber(oldSequenceNumber) == oldSequenceNumber + 1

\* drm_engine.js:304-322: drop oldItem and rewrite the header
Evict(template) ==
  LET spliced == Splice(template, IndexOf(template, OldItem(template)))
  IN [spliced EXCEPT ![1] = Header(NewSequenceNumber(spliced[1].seq))]

\* drm_engine.js:291-324
AppendSegment(template, name, maxSeg) ==
  IF BufferFull(template, maxSeg)
  THEN Append(Evict(template), Extinf(name))
  ELSE Append(template, Extinf(name))

\* ------------------------------------------------- download_segments
\* drm_engine.js:271-334: how the merge with the Init segment and the
\* decrypter end for a media segment.
ManipulationOutcomes == {"ok", "merge_failed", "decrypt_failed"}

\* drm_engine.js:223: the name under which the loop expects the Init segment.
initFile == "init.mp4"

\* File names an Init segment URL can end in (drm_engine.js:252-259 keeps a
\* name that is not a hexadecimal number as it is).
InitNames == {"init.mp4", "header.mp4"}

\* drm_engine.js:252-259, 266: segmentName != initFile.  The name of a media
\* segment is its number, the name of slot 0 is the Init URL's file name.
IsMediaName(segmentUrl) == segmentUrl # InitURI \/ initSegmentName # initFile

TemplateAfterEager(template, name, maxSeg, outcome) ==
  AppendSegment(template, name, maxSeg)

\* drm_engine.js:271-334: the template is touched (lines 298-324) only
\* when mergeFiles answered true and the decrypter exited with code 0; the
\* throws of lines 281 and 330 come before.
TemplateAfter(template, name, maxSeg, outcome) ==
  IF outcome = "ok" THEN AppendSegment(template, name, maxSeg) ELSE template

SlotTrackVideoFirst == IF j = 0 THEN "video" ELSE "audio"

SlotTrackAudioOnly == "audio"

\* drm_engine.js:234-249: the inner loop takes audio (j = 0), then video.
SlotTrack == IF j = 0 THEN "audio" ELSE "video"

Crash(reason) ==
  /\ pc' = "crashed"
  /\ err' = reason

\* drm_engine.js:234-336, one pass of the inner loop: slot i of track j.
\* A segment whose name is initFile is only downloaded (drm_engine.js:266).
ProcessSegment ==
  /\ pc = "download"
  /\ i < Len(segmentUrlList["audio"])
  \* a track is followed as far as MaxId + 1 playlist entries
  /\ Len(emitted[SlotTrack]) <= MaxId
  /\ LET t == SlotTrack
     IN IF i >= Len(segmentUrlList[t])
        THEN \* segmentUrl is undefined: segmentUrl.split throws (line 252)
             /\ Crash("TypeError")
             /\ UNCHANGED <<i, j, lastURI, cycleSegs, done, hlsVars>>
        ELSE LET segmentUrl == segmentUrlList[t][i + 1]
             IN /\ lastURI' = [lastURI EXCEPT ![t] = segmentUrl]
                /\ cycleSegs' = cycleSegs + 1
                /\ \/ /\ Crash("DOWNLOAD_FAILED")
                      /\ UNCHANGED <<i, j, done, hlsVars>>
                   \/ /\ IsMediaName(segmentUrl)
                      /\ \E outcome \in ManipulationOutcomes \ {"ok"} :
                           mediaPLTemplate' = [mediaPLTemplate EXCEPT ![t] =
                             TemplateAfter(@, segmentUrl, maxSegmentNum, outcome)]
                      /\ Crash("SEGMENT_MANIPULATION_FAILED")
                      /\ UNCHANGED <<i, j, done, files, emitted, evictions>>
                   \/ /\ IF ~IsMediaName(segmentUrl)
                         THEN UNCHANGED hlsVars
                         ELSE /\ mediaPLTemplate' = [mediaPLTemplate EXCEPT ![t] =
                                   TemplateAfter(@, segmentUrl, maxSegmentNum, "ok")]
                              /\ files' = [files EXCEPT ![t] =
                                   IF BufferFull(mediaPLTemplate[t], maxSegmentNum)
                                   THEN (@ \cup {segmentUrl}) \ {OldItem(mediaPLTemplate[t]).uri}
                                   ELSE @ \cup {segmentUrl}]
                              /\ emitted' = [emitted EXCEPT ![t] = Append(@, segmentUrl)]
                              /\ evictions' = [evictions EXCEPT ![t] =
                                   IF BufferFull(mediaPLTemplate[t], maxSegmentNum)
                                   THEN @ + 1 ELSE @]
                      /\ done' = [done EXCEPT ![t] = @ + 1]
                      /\ j' = 1 - j
                      /\ i' = IF j = 1 THEN i + 1 ELSE i
                      /\ UNCHANGED <<pc, err>>
  /\ UNCHANGED libVars
  /\ UNCHANGED <<bootVars, confVars, variants, manifestExpired, hi, endPlayTime, selVars,
                 key, keyId, lastSegmentURI, segmentUrlList, decryptKey,
                 expiredOnEntry, keyFetched, expiryFound>>

\* drm_engine.js:350-361 and superparser.js:213: the loop is over, the
\* saver clears itself and hands back the last URI of each track.
FinishDownload ==
  /\ pc = "download"
  /\ i >= Len(segmentUrlList["audio"])
  /\ lastSegmentURI' = lastURI
  /\ segmentUrlList' = [t \in Tracks |-> <<>>]
  /\ decryptKey' = "undefined"
  /\ i' = 0
  /\ j' = 0
  /\ lastURI' = [t \in Tracks |-> NullURI]
  /\ pc' = "expiry"
  /\ UNCHANGED libVars
  /\ UNCHANGED <<bootVars, confVars, variants, manifestExpired, hi, endPlayTime, selVars,
                 key, keyId, hlsVars, cycleVars, err>>

\* ------------------------------------------------- expiry and refresh
\* superparser.js:220-225.  The module is an ES module (import, top-level
\* await), so `this` is undefined at its top level: evaluating
\* this.apiURLFormat_ for the call of line 223 throws a TypeError before
\* getManifestURI_ runs and before line 224 is reached.
CheckExpiry ==
  /\ pc = "expiry"
  /\ \E expired \in BOOLEAN :
       /\ expiryFound' = expired
       /\ IF expired
          THEN Crash("TypeError")
          ELSE /\ pc' = "refresh"
               /\ err' = err
  /\ UNCHANGED libVars
  /\ UNCHANGED <<bootVars, confVars, variants, manifestExpired, hi, endPlayTime, selVars,
                 key, keyId, lastSegmentURI, saverVars, hlsVars, expiredOnEntry,
                 keyFetched, cycleSegs, done>>

\* superparser.js:229 and part_009:236-250: fetch and parse the manifest;
\* the indexes gain the references the live stream produced meanwhile.
RequestManifest ==
  /\ pc = "refresh"
  /\ \/ /\ Crash("MANIFEST_REQUEST_FAILED")
        /\ UNCHANGED <<hi, firstCycle>>
     \/ /\ \E h \in [Tracks -> 1..MaxId] :
             /\ \A t \in Tracks : h[t] >= hi[t]
             /\ hi' = h
        /\ firstCycle' = FALSE
        /\ pc' = "select"
        /\ err' = err
  /\ UNCHANGED libVars
  /\ UNCHANGED <<masterWrites, headerInits, confVars, variants, manifestExpired, endPlayTime, selVars,
                 key, keyId, lastSegmentURI, saverVars, hlsVars, cycleVars>>

\* ------------------------------------------------- operation_manager
OpIds == 1..MaxOps

Occurrences(list, o) == Cardinality({n \in 1..Len(list) : list[n] = o})

AbortsOfDestroyNone(list, calls) == calls

\* operation_manager.js:23-36, destroy(): abort() on every element of
\* operations_, in order; the list is replaced by an empty one.
AbortsOfDestroy(list, calls) ==
  [o \in DOMAIN calls |-> calls[o] + Occurrences(list, o)]

\* ------------------------------------------------------ dash_parser
\* Context ids (period.id + ',' + representation.id, part_009:1079-1080)
\* of the Representation elements a manifest may hold; NoContextId is a
\* Representation without an id.
ContextIds == {"p,a", "p,v"}
NoContextId == ""
Representations == ContextIds \cup {NoContextId}
RepresentationOrder == <<"p,a", "p,v", "">>

NoParse == [n |-> 0, refresh |-> FALSE, dynamic |-> FALSE, keysBefore |-> {},
            reps |-> {}, stored |-> {}, evicted |-> {}]

StoredIndexes(map) == {map[k].segmentIndex : k \in DOMAIN map} \ {0}

EvictedOnParseNone(map, manifest) == {}

\* part_009:315-333: on an update (this.manifest_ set) evict() is called
\* on the segmentIndex of every stream of the map that has one.
EvictedOnParse(map, manifest) ==
  IF manifest # "null" THEN StoredIndexes(map) ELSE {}

\* segment_list.js:34-69 then part_009:1082-1134 for one Representation.
\* ps = [map, gid, cnt, closure]: stream map, globalId_, index objects
\* created, and the index each streamInfo closure holds.
ParseRepresentation(ps, r, dynamic) ==
  LET stored == r # NoContextId /\ r \in DOMAIN ps.map
      old == IF stored THEN ps.map[r].segmentIndex ELSE 0
      isNew == old = 0
      idx == IF isNew THEN ps.cnt + 1 ELSE old
      listed == IF stored THEN [ps.map EXCEPT ![r].segmentIndex = idx]
                ELSE ps.map
      stream == [id |-> ps.gid, segmentIndex |-> 0]
  IN [map |-> IF r # NoContextId /\ dynamic /\ r \notin DOMAIN listed
              THEN listed @@ (r :> stream) ELSE listed,
      gid |-> ps.gid + 1,
      cnt |-> IF isNew THEN ps.cnt + 1 ELSE ps.cnt,
      closure |-> [ps.closure EXCEPT ![r] = idx]]

\* parsePeriods_: the Representations of the manifest, in document order.
RECURSIVE ParseRepresentations(_, _, _, _)
ParseRepresentations(ps, reps, n, dynamic) ==
  IF n > Len(RepresentationOrder) THEN ps
  ELSE ParseRepresentations(
         IF RepresentationOrder[n] \in reps
         THEN ParseRepresentation(ps, RepresentationOrder[n], dynamic)
         ELSE ps,
         reps, n + 1, dynamic)

Rejections == {"API", "NETWORK", "TypeError"}

\* The run of start() or onUpdate_ ends.  startOk: start() resolves.
\* reachedTimer: onUpdate_ gets to its last statement, setUpdateTimer_
\* (part_009:1465 and 1201-1218); otherwise it rejects with `reason`.
Finish(startOk, reachedTimer, reason, period) ==
  /\ runner' = "none"
  /\ rpc' = "idle"
  /\ IF runner = "start"
     THEN /\ started' = IF startOk THEN "yes" ELSE "failed"
          /\ UNCHANGED <<updateTimer_, onUpdateEnd>>
     ELSE /\ started' = started
          /\ IF ~reachedTimer
             THEN onUpdateEnd' = reason /\ UNCHANGED updateTimer_
             ELSE IF period < 0
             THEN onUpdateEnd' = "noPeriod" /\ UNCHANGED updateTimer_
             ELSE IF updateTimer_ = "null"
             THEN onUpdateEnd' = "TypeError" /\ UNCHANGED updateTimer_
             ELSE onUpdateEnd' = "rearmed" /\ updateTimer_' = "armed"

indexVars == <<streamMap_, globalId_, indexCount, closureIndex, released,
               parses, lastParse, wasStored>>

\* part_009:175-177: start() calls getManifestURI_.
StartParser ==
  /\ started = "no"
  /\ runner = "none"
  /\ ~stopped
  /\ runner' = "start"
  /\ rpc' = "uri"
  /\ UNCHANGED <<updateTimer_, manifestUri_, manifest_, periodCombiner_,
                 updatePeriod_, indexVars, started, stopped, onUpdateEnd>>
  /\ UNCHANGED <<loopVars, manifestExpired, managerVars, extraVars>>

\* part_009:221-228 resumed after `await network_engine.http_get`, then
\* 1453 (onUpdate_) and 236-241 up to the await of the manifest fetch.
UriResponse ==
  /\ rpc = "uri"
  /\ \/ /\ manifestUri_' = "uri"
        /\ manifestExpired' = IF runner = "onUpdate" THEN TRUE ELSE manifestExpired
        /\ rpc' = "fetch"
        /\ UNCHANGED <<runner, started, updateTimer_, onUpdateEnd>>
     \/ /\ Finish(FALSE, FALSE, "API", updatePeriod_)
        /\ UNCHANGED <<manifestUri_, manifestExpired>>
  /\ UNCHANGED <<manifest_, periodCombiner_, updatePeriod_, indexVars, stopped>>
  /\ UNCHANGED <<loopVars, managerVars, extraVars>>

\* part_009:236-250 resumed after the fetch, 260-269 and the synchronous
\* part of processManifest_ (278-420) up to `await combinePeriods`.  The
\* fetch throws what axios throws, not an sp error, so the catch of
\* onUpdate_ (1457-1462) fails its assert and onUpdate_ rejects;
\* DASH_INVALID_XML is an sp error, which onUpdate_ re-classifies.
FetchResponse ==
  /\ rpc = "fetch"
  /\ \/ /\ Finish(FALSE, FALSE, "NETWORK", updatePeriod_)
        /\ UNCHANGED <<updatePeriod_, indexVars>>
     \/ /\ Finish(FALSE, TRUE, "", updatePeriod_)
        /\ UNCHANGED <<updatePeriod_, indexVars>>
     \/ \E period \in {-1, 1}, dynamic \in BOOLEAN, reps \in SUBSET Representations :
          LET ps == ParseRepresentations(
                      [map |-> streamMap_, gid |-> globalId_, cnt |-> indexCount,
                       closure |-> closureIndex], reps, 1, dynamic)
          IN /\ updatePeriod_' = period
             /\ streamMap_' = ps.map
             /\ globalId_' = ps.gid
             /\ indexCount' = ps.cnt
             /\ closureIndex' = ps.closure
             /\ parses' = parses + 1
             /\ lastParse' = [n |-> parses + 1,
                              refresh |-> manifest_ # "null",
                              dynamic |-> dynamic,
                              keysBefore |-> DOMAIN streamMap_,
                              reps |-> reps,
                              stored |-> StoredIndexes(streamMap_),
                              evicted |-> EvictedOnParse(streamMap_, manifest_)]
             /\ UNCHANGED <<released, wasStored>>
             /\ IF periodCombiner_ = "null"
                THEN Finish(FALSE, FALSE, "TypeError", period)
                ELSE /\ rpc' = "combine"
                     /\ UNCHANGED <<runner, started, updateTimer_, onUpdateEnd>>
  /\ UNCHANGED <<manifestUri_, manifest_, periodCombiner_, stopped>>
  /\ UNCHANGED <<loopVars, manifestExpired, managerVars, extraVars>>

\* part_009:420-443 resumed after combinePeriods: this.manifest_ is made
\* or updated from this.periodCombiner_.getVariants().
CombineDone ==
  /\ rpc = "combine"
  /\ IF periodCombiner_ = "null"
     THEN /\ Finish(FALSE, FALSE, "TypeError", updatePeriod_)
          /\ manifest_' = manifest_
     ELSE /\ Finish(TRUE, TRUE, "", updatePeriod_)
          /\ manifest_' = "manifest"
  /\ UNCHANGED <<manifestUri_, periodCombiner_, updatePeriod_, indexVars, stopped>>
  /\ UNCHANGED <<loopVars, manifestExpired, managerVars, extraVars>>

\* part_009:1082-1095: createSegmentIndex() of the stream parsed last for
\* context id k, which fills the stored stream of that id.
CreateSegmentIndex ==
  /\ \E k \in DOMAIN streamMap_ :
       /\ lastParse.dynamic
       /\ k \in lastParse.reps
       /\ streamMap_[k].segmentIndex = 0
       /\ streamMap_' = [streamMap_ EXCEPT ![k].segmentIndex = closureIndex[k]]
  /\ UNCHANGED <<updateTimer_, manifestUri_, manifest_, periodCombiner_,
                 globalId_, updatePeriod_, indexCount, closureIndex, released,
                 runner, rpc, started, stopped, parses, lastParse, wasStored,
                 onUpdateEnd>>
  /\ UNCHANGED <<loopVars, manifestExpired, managerVars, extraVars>>

\* part_009:1201-1218, called on a started parser by its owner (what line
\* 180 did before it was commented out).
SetUpdateTimer ==
  /\ started = "yes"
  /\ ~stopped
  /\ runner = "none"
  /\ updateTimer_ = "idle"
  /\ updatePeriod_ >= 0
  /\ updateTimer_' = "armed"
  /\ UNCHANGED <<manifestUri_, manifest_, periodCombiner_, updatePeriod_,
                 indexVars, runner, rpc, started, stopped, onUpdateEnd>>
  /\ UNCHANGED <<loopVars, manifestExpired, managerVars, extraVars>>

\* part_009:147-149 and 1437-1451: the timer ticks and onUpdate_ runs up
\* to its first await, or to its end when the manifest has not expired.
OnUpdate ==
  /\ updateTimer_ = "armed"
  /\ runner = "none"
  /\ \/ /\ updateTimer_' = "armed"
        /\ onUpdateEnd' = "rearmed"
        /\ UNCHANGED <<runner, rpc>>
     \/ /\ parses < MaxParses
        /\ updateTimer_' = "idle"
        /\ onUpdateEnd' = "none"
        /\ runner' = "onUpdate"
        /\ rpc' = "uri"
  /\ UNCHANGED <<manifestUri_, manifest_, periodCombiner_, updatePeriod_,
                 indexVars, started, stopped>>
  /\ UNCHANGED <<loopVars, manifestExpired, managerVars, extraVars>>

\* part_009:187-210
Stop ==
  /\ ~stopped
  /\ started # "no" \/ runner # "none"
  /\ released' = released \cup StoredIndexes(streamMap_)
  /\ wasStored' = StoredIndexes(streamMap_)
  /\ manifestUri_' = "null"
  /\ manifest_' = "null"
  /\ streamMap_' = << >>
  /\ periodCombiner_' = "null"
  /\ updateTimer_' = "null"
  /\ operations_' = << >>
  /\ abortCalls' = AbortsOfDestroy(operations_, abortCalls)
  /\ stopped' = TRUE
  /\ UNCHANGED <<globalId_, updatePeriod_, indexCount, closureIndex, runner,
                 rpc, started, parses, lastParse, onUpdateEnd>>
  /\ UNCHANGED <<loopVars, manifestExpired, extraVars>>

\* ----------------------------------------------------- dash_parser.start
StartArmsUpdateTimerYes == TRUE

\* part_009:179-180: start() takes the update delay from requestManifest_
\* and does not pass it to setUpdateTimer_ (the call is commented out).
StartArmsUpdateTimer == FALSE

\* part_009:147-149 and 175-185: the timer the constructor made, after
\* start() has returned.
UpdateTimerAfterStart == IF StartArmsUpdateTimer THEN "armed" ELSE "idle"

\* part_009:106-173: the parser as its constructor leaves it.
ParserNew ==
  /\ updateTimer_ = "idle"
  /\ manifestUri_ = "null"
  /\ manifest_ = "null"
  /\ periodCombiner_ = "combiner"
  /\ streamMap_ = << >>
  /\ globalId_ = 1
  /\ updatePeriod_ = 0
  /\ indexCount = 0
  /\ closureIndex = [r \in Representations |-> 0]
  /\ released = {}
  /\ runner = "none"
  /\ rpc = "idle"
  /\ started = "no"
  /\ stopped = FALSE
  /\ parses = 0
  /\ lastParse = NoParse
  /\ wasStored = {}
  /\ onUpdateEnd = "none"

\* superparser.js:87-91: the parser of the main program once start() has
\* resolved, for a dynamic manifest with an audio and a video
\* Representation.
ParserAfterStart ==
  LET ps == ParseRepresentations(
              [map |-> << >>, gid |-> 1, cnt |-> 0,
               closure |-> [r \in Representations |-> 0]], ContextIds, 1, TRUE)
  IN /\ updateTimer_ = UpdateTimerAfterStart
     /\ manifestUri_ = "uri"
     /\ manifest_ = "manifest"
     /\ periodCombiner_ = "combiner"
     /\ streamMap_ = ps.map
     /\ globalId_ = ps.gid
     /\ updatePeriod_ = 1
     /\ indexCount = ps.cnt
     /\ closureIndex = ps.closure
     /\ released = {}
     /\ runner = "none"
     /\ rpc = "idle"
     /\ started = "yes"
     /\ stopped = FALSE
     /\ parses = 1
     /\ lastParse = [n |-> 1, refresh |-> FALSE, dynamic |-> TRUE,
                     keysBefore |-> {}, reps |-> ContextIds, stored |-> {},
                     evicted |-> {}]
     /\ wasStored = {}
     /\ onUpdateEnd = "none"

\* operation_manager.js:7-9
ManagerNew ==
  /\ operations_ = << >>
  /\ abortCalls = [o \in OpIds |-> 0]

\* ------------------------------------------------ abortable_operation
\* A Promise is "pending", "locked" (resolved with a thenable that has not
\* settled yet), "fulfilled", or rejected: "failed" or "OPERATION_ABORTED".
Open == {"pending", "locked"}
Settled == {"fulfilled", "failed", "OPERATION_ABORTED"}

\* public_promise.reject(reason): only a pending promise takes it.
PublicReject(p, reason) == IF p = "pending" THEN reason ELSE p

\* public_promise.resolve(value): a thenable locks the promise to itself,
\* any other value fulfils it.
PublicResolve(p, thenable) ==
  IF p = "pending" THEN IF thenable THEN "locked" ELSE "fulfilled" ELSE p

\* part_002:131-139: what a chain callback may return; "notAbortable" is
\* the operation of lines 91-98, whose abort() only waits; "throws" is a
\* callback that throws.
ReturnKinds == {"plain", "Promise", "operation", "notAbortable", "throws"}

IsOperation(kind) == kind \in {"operation", "notAbortable"}

Thenable(kind) == kind \in {"Promise", "operation", "notAbortable"}

ChainCallNames == {"onSuccess", "onError", "op1.abort", "ret.abort", "op2.abort"}

Called(calls, name) == [calls EXCEPT ![name] = @ + 1]

wrapChainCallbackAbortsAll_(kind, p) ==
  IF kind = "throws"
    THEN [abort |-> "resolved", newPromise |-> PublicReject(p, "failed")]
    ELSE [abort |-> "ret.abort",
          newPromise |-> PublicResolve(p, Thenable(kind))]

\* part_002:204-231: the state of newPromise and the next abort closure.
\* "ret.abort" is () => ret.abort(), "wait" is the closure that only waits
\* for ret, "resolved" is () => Promise.resolve().
wrapChainCallback_(kind, p) ==
  IF kind = "throws"
    THEN [abort |-> "resolved", newPromise |-> PublicReject(p, "failed")]
    ELSE IF IsOperation(kind)
      THEN [abort |-> "ret.abort", newPromise |-> PublicResolve(p, TRUE)]
      ELSE [abort |-> "wait",
            newPromise |-> PublicResolve(p, kind = "Promise")]

\* The stage of the chain an abort() finds: op1 until a callback has
\* returned, then what the callback returned.
Stage == IF abort = "this.abort" THEN "op1" ELSE ret

\* op1.promise settles; only an aborted operation rejects with
\* OPERATION_ABORTED (part_002:14-17).
SettleOp1 ==
  /\ promise = "pending"
  /\ \E outcome \in Settled :
       /\ outcome = "OPERATION_ABORTED" => aborted_
       /\ promise' = outcome
  /\ UNCHANGED <<aborted_, onError, callbackRan, abort, newPromise, ret,
                 retPromise, chainCalls, abortedWhile>>
  /\ UNCHANGED notChainVars

\* part_002:158-180: the callback chain() registered on op1.promise, run
\* after op1.promise has settled.  onSuccess is always passed.
ChainCallback ==
  /\ promise \in Settled
  /\ ~callbackRan
  /\ callbackRan' = TRUE
  /\ LET isSuccess == promise = "fulfilled"
     IN IF aborted_ /\ isSuccess
          THEN /\ newPromise' = PublicReject(newPromise, "OPERATION_ABORTED")
               /\ UNCHANGED <<abort, ret, retPromise, chainCalls>>
          ELSE IF ~isSuccess /\ ~onError
            THEN /\ newPromise' = PublicReject(newPromise, promise)
                 /\ UNCHANGED <<abort, ret, retPromise, chainCalls>>
            ELSE \E kind \in ReturnKinds :
                 \E state \in {"pending", "fulfilled", "failed"} :
                   LET next == wrapChainCallback_(kind, newPromise)
                   IN /\ Thenable(kind) \/ state = "pending"
                      /\ ret' = kind
                      /\ retPromise' = IF Thenable(kind) THEN state ELSE "none"
                      /\ abort' = next.abort
                      /\ newPromise' = next.newPromise
                      /\ chainCalls' =
                           Called(chainCalls,
                                  IF isSuccess THEN "onSuccess" ELSE "onError")
  /\ UNCHANGED <<promise, aborted_, onError, abortedWhile>>
  /\ UNCHANGED notChainVars

\* The Promise or operation the callback returned settles.  An operation
\* that was aborted while pending rejects with OPERATION_ABORTED
\* (part_002:14-24); a Promise or a notAbortable operation settles as it
\* would have.
SettleRet ==
  /\ retPromise = "pending"
  /\ \E outcome \in Settled :
       /\ outcome = "OPERATION_ABORTED"
            <=> (ret = "operation" /\ chainCalls["ret.abort"] > 0)
       /\ retPromise' = outcome
  /\ UNCHANGED <<promise, aborted_, onError, callbackRan, abort, newPromise,
                 ret, chainCalls, abortedWhile>>
  /\ UNCHANGED notChainVars

\* part_002:216 and 223: newPromise takes the state of the thenable it was
\* resolved with.
Adopt ==
  /\ newPromise = "locked"
  /\ retPromise \in Settled
  /\ newPromise' = retPromise
  /\ UNCHANGED <<promise, aborted_, onError, callbackRan, abort, ret,
                 retPromise, chainCalls, abortedWhile>>
  /\ UNCHANGED notChainVars

\* part_002:103-106 on op2, whose onAbort_ is () => abort() (line 188).
Abort ==
  /\ chainCalls["op2.abort"] < MaxAborts
  /\ abortedWhile' = IF newPromise \in Open
                       THEN abortedWhile \cup {Stage}
                       ELSE abortedWhile
  /\ CASE abort = "this.abort" ->
            /\ newPromise' = PublicReject(newPromise, "OPERATION_ABORTED")
            /\ aborted_' = TRUE
            /\ chainCalls' = Called(Called(chainCalls, "op2.abort"), "op1.abort")
       [] abort = "ret.abort" ->
            /\ chainCalls' = Called(Called(chainCalls, "op2.abort"), "ret.abort")
            /\ UNCHANGED <<newPromise, aborted_>>
       [] OTHER ->
            /\ chainCalls' = Called(chainCalls, "op2.abort")
            /\ UNCHANGED <<newPromise, aborted_>>
  /\ UNCHANGED <<promise, onError, callbackRan, abort, ret, retPromise>>
  /\ UNCHANGED notChainVars

\* array_utils.remove(array, element): the first occurrence is spliced out.
Remove(list, o) ==
  IF \E n \in 1..Len(list) : list[n] = o
    THEN LET k == CHOOSE n \in 1..Len(list) :
                    /\ list[n] = o
                    /\ \A m \in 1..(n - 1) : list[m] # o
         IN SubSeq(list, 1, k - 1) \o SubSeq(list, k + 1, Len(list))
    ELSE list

InList(list, o) == \E n \in 1..Len(list) : list[n] = o

\* operation_manager.js:17-21 with part_002:125-128: finally() registers
\* the callback on operation.promise and returns the operation, which is
\* pushed.  An operation is handed to the manager once.
Manage ==
  /\ \E o \in OpIds \ managed :
       /\ operations_' = Append(operations_, o)
       /\ managed' = managed \cup {o}
       /\ finalPending' = finalPending \cup {o}
  /\ UNCHANGED <<abortCalls, opPromise>>
  /\ UNCHANGED notManagerVars

\* operation.promise settles, managed or not, aborted or not; only an
\* aborted operation rejects with OPERATION_ABORTED (part_002:14-17).
SettleOp ==
  /\ \E o \in OpIds :
       /\ opPromise[o] = "pending"
       /\ \E outcome \in Settled :
            /\ outcome = "OPERATION_ABORTED" => abortCalls[o] > 0
            /\ opPromise' = [opPromise EXCEPT ![o] = outcome]
  /\ UNCHANGED <<operations_, abortCalls, managed, finalPending>>
  /\ UNCHANGED notManagerVars

\* operation_manager.js:18-20: the callback of finally(), run once the
\* promise has settled.
OnFinal ==
  /\ \E o \in finalPending :
       /\ opPromise[o] \in Settled
       /\ operations_' = Remove(operations_, o)
       /\ finalPending' = finalPending \ {o}
  /\ UNCHANGED <<abortCalls, opPromise, managed>>
  /\ UNCHANGED notManagerVars

\* operation_manager.js:23-36
Destroy ==
  /\ abortCalls' = AbortsOfDestroy(operations_, abortCalls)
  /\ operations_' = << >>
  /\ UNCHANGED <<opPromise, managed, finalPending>>
  /\ UNCHANGED notManagerVars

\* The operations before any is handed to a manager.
OpsNew ==
  /\ opPromise = [o \in OpIds |-> "pending"]
  /\ managed = {}
  /\ finalPending = {}

\* ------------------------------------------------- content_protection
\* The scheme of a ContentProtection element: a key system that
\* keySystemsByURI knows, or a URI it does not know.
KnownKeySystems == {"Widevine", "PlayReady"}
Schemes == KnownKeySystems \cup {"unknown"}

\* The ContentProtection children of one AdaptationSet or Representation.
ElemLists == UNION {[1..n -> Schemes] : n \in 0..MaxElems}

Range(f) == {f[x] : x \in DOMAIN f}

\* Array.prototype.filter
RECURSIVE Filter(_, _)
Filter(list, keep) ==
  IF list = << >> THEN << >>
  ELSE (IF Head(list) \in keep THEN <<Head(list)>> ELSE << >>)
         \o Filter(Tail(list), keep)

\* content_protection.js:403-444: one DrmInfo, here its keySystem, for
\* every element whose scheme is a known key system.
convertElements_(elements) == Filter(elements, KnownKeySystems)

\* content_protection.js:26-110 with ignoreDrmInfo = false, for elements
\* without key ids and none of them the MP4 protection scheme: the known
\* key systems, or one DrmInfo with an empty keySystem when there are
\* elements and none is known.
parseFromAdaptationSet(elems) ==
  LET infos == convertElements_(elems)
  IN [drmInfos |-> IF elems # << >> /\ infos = << >> THEN <<"">> ELSE infos,
      firstRepresentation |-> TRUE]

\* content_protection.js:124-137: context.drmInfos after the first
\* Representation.
FirstRepresentation(ctx, repInfos) ==
  LET asUnknown == Len(ctx.drmInfos) = 1 /\ ctx.drmInfos[1] = ""
      asUnencrypted == Len(ctx.drmInfos) = 0
      repUnencrypted == Len(repInfos) = 0
  IN IF asUnencrypted \/ (asUnknown /\ ~repUnencrypted)
       THEN repInfos
       ELSE ctx.drmInfos

\* content_protection.js:120-157: the context and the error thrown.
parseFromRepresentation(elems, ctx) ==
  LET repInfos == parseFromAdaptationSet(elems).drmInfos
  IN IF ctx.firstRepresentation
       THEN [context |-> [drmInfos |-> FirstRepresentation(ctx, repInfos),
                          firstRepresentation |-> FALSE],
             error |-> ""]
       ELSE IF Len(repInfos) > 0
         THEN LET kept == Filter(ctx.drmInfos, Range(repInfos))
              IN [context |-> [ctx EXCEPT !.drmInfos = kept],
                  error |-> IF Len(kept) = 0
                              THEN "DASH_NO_COMMON_KEY_SYSTEM" ELSE ""]
         ELSE [context |-> ctx, error |-> ""]

\* What the elements seen so far declare: the key systems of the
\* AdaptationSet, those common to it and to every Representation that
\* declares some, those of the latest Representation, and whether every
\* element named a known key system.
HistoryOfSet(elems) ==
  [as |-> Range(elems) \cap KnownKeySystems,
   common |-> Range(elems) \cap KnownKeySystems,
   last |-> {},
   known |-> Range(elems) \subseteq KnownKeySystems]

HistoryOfRepresentation(h, elems) ==
  [as |-> h.as,
   common |-> IF elems = << >> THEN h.common ELSE h.common \cap Range(elems),
   last |-> Range(elems),
   known |-> h.known /\ Range(elems) \subseteq KnownKeySystems]

\* part_009:820-829: the next AdaptationSet of the manifest is parsed.
ParseFromAdaptationSet ==
  /\ cpError = ""
  /\ \E elems \in ElemLists :
       /\ context' = parseFromAdaptationSet(elems)
       /\ cpHistory' = HistoryOfSet(elems)
  /\ repsParsed' = 0
  /\ UNCHANGED cpError
  /\ UNCHANGED notCpVars

\* part_009:1016-1021: the next Representation of the AdaptationSet.
ParseFromRepresentation ==
  /\ cpError = ""
  /\ repsParsed < MaxReps
  /\ \E elems \in ElemLists :
       LET out == parseFromRepresentation(elems, context)
       IN /\ context' = out.context
          /\ cpError' = out.error
          /\ cpHistory' = HistoryOfRepresentation(cpHistory, elems)
  /\ repsParsed' = repsParsed + 1
  /\ UNCHANGED notCpVars

\* The context parseFromAdaptationSet returns for the given elements.
CpNew(elems) ==
  /\ context = parseFromAdaptationSet(elems)
  /\ cpError = ""
  /\ repsParsed = 0
  /\ cpHistory = HistoryOfSet(elems)

CpParked == CpNew(<< >>)

\* ------------------------------------ dash_parser.verifyRepresentation_
ContentTypes == {"video", "audio", "text", "application", "image"}

\* part_009:944: the inheritance frame of a Representation, as far as
\* verifyRepresentation_ reads it.
Frames == [segmentBase : BOOLEAN, segmentList : BOOLEAN,
           segmentTemplate : BOOLEAN, contentType : ContentTypes]

\* part_009:1153-1156
SourceCount(f) ==
  (IF f.segmentBase THEN 1 ELSE 0) + (IF f.segmentList THEN 1 ELSE 0)
    + (IF f.segmentTemplate THEN 1 ELSE 0)

IsText(f) == f.contentType \in {"text", "application"}

verifyRepresentationExactlyOne_(f) ==
  [ok |-> SourceCount(f) = 1 \/ (SourceCount(f) = 0 /\ IsText(f)),
   frame |-> f]

\* part_009:1150-1191: the value returned and the frame as it is left.
verifyRepresentation_(f) ==
  IF SourceCount(f) = 0
    THEN [ok |-> IsText(f), frame |-> f]
    ELSE IF SourceCount(f) # 1
      THEN [ok |-> TRUE,
            frame |-> IF f.segmentBase
                        THEN [f EXCEPT !.segmentList = FALSE,
                                       !.segmentTemplate = FALSE]
                        ELSE [f EXCEPT !.segmentTemplate = FALSE]]
      ELSE [ok |-> TRUE, frame |-> f]

\* part_009:975-1000: the segment source parseRepresentation_ builds the
\* stream from.
StreamSource(f) ==
  IF f.segmentBase THEN "segmentBase"
  ELSE IF f.segmentList THEN "segmentList"
  ELSE IF f.segmentTemplate THEN "segmentTemplate"
  ELSE "single"

\* part_009:944: createFrame_ for the next Representation.
CreateFrame ==
  /\ verified # "pending"
  /\ Len(streams) < MaxReps
  /\ \E f \in Frames :
       /\ frame' = f
       /\ frameIn' = f
  /\ verified' = "pending"
  /\ UNCHANGED streams
  /\ UNCHANGED notReprVars

\* part_009:950-1000: verifyRepresentation_ and, when it returns true, the
\* choice of the segment source.
VerifyRepresentation ==
  /\ verified = "pending"
  /\ LET out == verifyRepresentation_(frame)
     IN /\ frame' = out.frame
        /\ verified' = IF out.ok THEN "accepted" ELSE "rejected"
        /\ streams' = IF out.ok
                        THEN Append(streams, StreamSource(out.frame))
                        ELSE streams
  /\ UNCHANGED frameIn
  /\ UNCHANGED notReprVars

ReprNew(f) ==
  /\ frame = f
  /\ frameIn = f
  /\ verified = "pending"
  /\ streams = << >>

ReprParked ==
  ReprNew([segmentBase |-> FALSE, segmentList |-> FALSE,
           segmentTemplate |-> TRUE, contentType |-> "video"])

\* ---------------------------------------------- mpd_utils.createTimeline
\* Times are kept in timescale units: the division by timescale of lines
\* 217-218 keeps every comparison of the timeline.
TValues == {0, 2}
DValues == {0, 1, 2}
RValues == {-1, 0, 1}

\* An S element: @t (when hasT), @d (0 when missing or zero) and @r (0 when
\* missing).
SElements ==
  {e \in [hasT : BOOLEAN, t : TValues, d : DValues, r : RValues] :
     e.hasT \/ e.t = 0}

STimelines == UNION {[1..n -> SElements] : n \in 0..MaxS}

Offsets == {0, 1}

\* The Period's duration times the timescale; Infinity for a Period that
\* goes on.
PeriodDurations == {[infinite |-> TRUE, units |-> 0],
                    [infinite |-> FALSE, units |-> 3]}

\* Math.ceil(a / d) for a > 0 and d > 0
CeilDiv(a, d) == (a + d - 1) \div d

\* part_008:219-225: the entries of one S element, repeat + 1 of them.
RECURSIVE Entries(_, _, _)
Entries(startTime, d, n) ==
  IF n = 0 THEN << >>
  ELSE <<[start |-> startTime, end |-> startTime + d]>>
         \o Entries(startTime + d, d, n - 1)

\* part_008:153-154: @t of the next S element, as parsed.
NextStartTime(next, offset) == next.t

\* part_008:151-190: the repeat count of an S element; -1 stands for the
\* return of the timeline built so far.
RepeatOf(timePoint, hasNext, next, startTime, offset, period) ==
  IF timePoint.r >= 0 THEN timePoint.r
  ELSE IF hasNext
    THEN IF ~next.hasT THEN -1
         ELSE IF startTime >= NextStartTime(next, offset) THEN -1
         ELSE CeilDiv(NextStartTime(next, offset) - startTime, timePoint.d) - 1
    ELSE IF period.infinite THEN -1
         ELSE IF startTime >= period.units THEN -1
         ELSE CeilDiv(period.units - startTime, timePoint.d) - 1

\* part_008:199-211: the end of the last entry is moved to startTime.
Stretched(tl, startTime, lastEnd) ==
  IF Len(tl) > 0 /\ startTime # lastEnd
    THEN [tl EXCEPT ![Len(tl)].end = startTime]
    ELSE tl

\* part_008:130-226: one pass of the loop over the S elements.
TimePoint ==
  /\ ~tlReturned
  /\ tlIndex <= Len(timePoints)
  /\ LET timePoint == timePoints[tlIndex]
         hasNext == tlIndex < Len(timePoints)
         next == IF hasNext THEN timePoints[tlIndex + 1] ELSE timePoint
         startTime == IF timePoint.hasT THEN timePoint.t - tlOffset
                      ELSE lastEndTime
         repeat == RepeatOf(timePoint, hasNext, next, startTime, tlOffset,
                            periodDuration)
     IN IF timePoint.d = 0 \/ repeat < 0
          THEN /\ tlReturned' = TRUE
               /\ UNCHANGED <<tlIndex, timeline, lastEndTime>>
          ELSE /\ timeline' = Stretched(timeline, startTime, lastEndTime)
                                \o Entries(startTime, timePoint.d, repeat + 1)
               /\ lastEndTime' = startTime + (repeat + 1) * timePoint.d
               /\ tlIndex' = tlIndex + 1
               /\ UNCHANGED tlReturned
  /\ UNCHANGED <<timePoints, tlOffset, periodDuration>>
  /\ UNCHANGED notTimelineVars

\* part_008:228: the loop is over.
ReturnTimeline ==
  /\ ~tlReturned
  /\ tlIndex > Len(timePoints)
  /\ tlReturned' = TRUE
  /\ UNCHANGED <<timePoints, tlOffset, periodDuration, tlIndex, timeline,
                 lastEndTime>>
  /\ UNCHANGED notTimelineVars

\* part_008:117-128: createTimeline before its loop.
TimelineNew(points, offset, period) ==
  /\ timePoints = points
  /\ tlOffset = offset
  /\ periodDuration = period
  /\ tlIndex = 1
  /\ timeline = << >>
  /\ lastEndTime = -offset
  /\ tlReturned = FALSE

TimelineParked ==
  TimelineNew(<< >>, 0, [infinite |-> TRUE, units |-> 0])

\* ---------------------------------- mp4_segment_index_parser.parseSIDX_
\* One entry of the SIDX: reference_type, referenced_size and
\* subsegment_duration.
SidxEntries == [type : {0, 1}, size : {1, 1000, 2000},
                duration : {2000, 3000}]

\* The fields of a SIDX box parseSIDX_ reads; version 0 and version 1
\* boxes differ in the width of two fields only.
SidxBoxes ==
  [size : {52}, timescale : {0, 1000}, earliestPresentationTime : {0, 500},
   firstOffset : {0, 100},
   entries : UNION {[1..n -> SidxEntries] : n \in 0..MaxRefs}]

\* segment_reference.js:134-143: the constructor; node's assert throws
\* when one of its two conditions fails.
NewSegmentReference(startTime, endTime, start, endByte) ==
  IF startTime <= endTime /\ start < endByte
    THEN [ok |-> TRUE,
          ref |-> [startTime |-> startTime, endTime |-> endTime,
                   startByte |-> start, endByte |-> endByte]]
    ELSE [ok |-> FALSE,
          ref |-> [startTime |-> startTime, endTime |-> endTime,
                   startByte |-> start, endByte |-> endByte]]

\* part_010:81-112: the header of the box.
SidxHeader ==
  /\ sidxPc = "header"
  /\ IF box.timescale = 0
       THEN /\ sidxPc' = "thrown"
            /\ sidxError' = "MP4_SIDX_INVALID_TIMESCALE"
            /\ UNCHANGED <<unscaledStartTime, startByte>>
       ELSE /\ sidxPc' = "loop"
            /\ unscaledStartTime' = box.earliestPresentationTime
            /\ startByte' = sidxOffset + box.size + box.firstOffset
            /\ UNCHANGED sidxError
  /\ UNCHANGED <<box, sidxOffset, references>>
  /\ UNCHANGED notSidxVars

\* part_010:114-154: one pass of the loop over the entries.  Times are
\* kept in timescale units; the division by timescale and the addition of
\* timestampOffset (lines 135-141) are the same for the end of one
\* reference and the start of the next.
SidxReference ==
  /\ sidxPc = "loop"
  /\ Len(references) < Len(box.entries)
  /\ LET entry == box.entries[Len(references) + 1]
         new == NewSegmentReference(unscaledStartTime,
                                    unscaledStartTime + entry.duration,
                                    startByte, startByte + entry.size - 1)
     IN IF entry.type = 1
          THEN /\ sidxPc' = "thrown"
               /\ sidxError' = "MP4_SIDX_TYPE_NOT_SUPPORTED"
               /\ UNCHANGED <<references, unscaledStartTime, startByte>>
          ELSE IF ~new.ok
            THEN /\ sidxPc' = "thrown"
                 /\ sidxError' = "AssertionError"
                 /\ UNCHANGED <<references, unscaledStartTime, startByte>>
            ELSE /\ references' = Append(references, new.ref)
                 /\ unscaledStartTime' = unscaledStartTime + entry.duration
                 /\ startByte' = startByte + entry.size
                 /\ UNCHANGED <<sidxPc, sidxError>>
  /\ UNCHANGED <<box, sidxOffset>>
  /\ UNCHANGED notSidxVars

\* part_010:156-157
SidxReturn ==
  /\ sidxPc = "loop"
  /\ Len(references) = Len(box.entries)
  /\ sidxPc' = "returned"
  /\ UNCHANGED <<box, sidxOffset, references, unscaledStartTime, startByte,
                 sidxError>>
  /\ UNCHANGED notSidxVars

\* part_010:71-79: parseSIDX_ at its entry.
SidxNew(b, offset) ==
  /\ box = b
  /\ sidxOffset = offset
  /\ sidxPc = "header"
  /\ references = << >>
  /\ unscaledStartTime = 0
  /\ startByte = 0
  /\ sidxError = ""

SidxParked ==
  SidxNew([size |-> 52, timescale |-> 1000, earliestPresentationTime |-> 0,
           firstOffset |-> 0, entries |-> << >>], 0)

\* ---------------------------------------------------- timer (part_003)
\* this.ticker_ = null
NoTicker == 0

\* delayed_tick.stop(): the timeout the delayed tick has armed is cancelled.
DelayedStop(tks, id) == [tks EXCEPT ![id].pending = FALSE]

\* delayed_tick.tickAfter(seconds): the delayed tick arms one timeout in
\* place of the one it may have armed before.
DelayedTickAfter(tks, id) == [tks EXCEPT ![id].pending = TRUE]

StopTickerKeeps(tks, tk) == tks

\* part_003:41-46, stop(): the delayed tick in use, if any, is stopped.
StopTicker(tks, tk) == IF tk # NoTicker THEN DelayedStop(tks, tk) ELSE tks

\* part_003:13-18
TickNow ==
  /\ onTicks < MaxOnTicks
  /\ ticks' = StopTicker(ticks, ticker_)
  /\ ticker_' = NoTicker
  /\ onTicks' = onTicks + 1
  /\ timerStopped' = FALSE
  /\ UNCHANGED timerError
  /\ UNCHANGED notTimerVars

\* part_003:20-28: stop(), then a new delayed_tick is made, armed and kept
\* in this.ticker_; its callback calls onTick_.
TickAfter ==
  /\ Len(ticks) < MaxTicks
  /\ ticks' = Append(StopTicker(ticks, ticker_),
                     [every |-> FALSE, pending |-> TRUE])
  /\ ticker_' = Len(ticks) + 1
  /\ timerStopped' = FALSE
  /\ UNCHANGED <<onTicks, timerError>>
  /\ UNCHANGED notTimerVars

\* part_003:30-39: the same, with a callback that arms the tick again.
TickEvery ==
  /\ Len(ticks) < MaxTicks
  /\ ticks' = Append(StopTicker(ticks, ticker_),
                     [every |-> TRUE, pending |-> TRUE])
  /\ ticker_' = Len(ticks) + 1
  /\ timerStopped' = FALSE
  /\ UNCHANGED <<onTicks, timerError>>
  /\ UNCHANGED notTimerVars

\* part_003:41-46
TimerStop ==
  /\ ticks' = StopTicker(ticks, ticker_)
  /\ ticker_' = NoTicker
  /\ timerStopped' = TRUE
  /\ UNCHANGED <<onTicks, timerError>>
  /\ UNCHANGED notTimerVars

\* The timeout of a delayed tick runs out and its callback runs: that of
\* tickAfter calls onTick_ (part_003:23-25), that of tickEvery first arms
\* this.ticker_ again (part_003:33-36).
DelayedTickFires ==
  /\ onTicks < MaxOnTicks
  /\ \E id \in 1..Len(ticks) :
       /\ ticks[id].pending
       /\ LET spent == [ticks EXCEPT ![id].pending = FALSE]
          IN IF ~ticks[id].every
             THEN /\ ticks' = spent
                  /\ onTicks' = onTicks + 1
                  /\ UNCHANGED timerError
             ELSE IF ticker_ = NoTicker
             THEN \* this.ticker_.tickAfter on null
                  /\ ticks' = spent
                  /\ timerError' = "TypeError"
                  /\ UNCHANGED onTicks
             ELSE /\ ticks' = DelayedTickAfter(spent, ticker_)
                  /\ onTicks' = onTicks + 1
                  /\ UNCHANGED timerError
  /\ UNCHANGED <<ticker_, timerStopped>>
  /\ UNCHANGED notTimerVars

\* part_003:8-11: new timer(onTick)
TimerNew ==
  /\ ticker_ = NoTicker
  /\ ticks = << >>
  /\ onTicks = 0
  /\ timerStopped = FALSE
  /\ timerError = ""

\* ----------------- sp_events_manager (src/util/operation_manager.js:40-101)
\* Event names and listeners of part_000:3-14.
EventNames == {"manifest_parsed", "eventOne"}
Fns == {"c1", "c2"}

\* A listener is a function handed to on() or an onceWrapper closure
\* (operation_manager.js:57-60), each closure a function of its own.
Plain(fn) == [fn |-> fn, once |-> 0]
Wrapper(fn, id) == [fn |-> fn, once |-> id]

NoEmit == [event |-> "none", calls |-> << >>]

\* this.listeners[eventName] || []
ListenersOf(ls, eventName) ==
  IF eventName \in DOMAIN ls THEN ls[eventName] ELSE << >>

\* this.listeners[eventName] = lis
WithListeners(ls, eventName, lis) ==
  [e \in DOMAIN ls \cup {eventName} |-> IF e = eventName THEN lis ELSE ls[e]]

\* Array.prototype.splice(i, 1), i counted from 0
SpliceOne(lis, idx) ==
  SubSeq(lis, 1, idx) \o SubSeq(lis, idx + 2, Len(lis))

\* operation_manager.js:69-79: the loop runs i from lis.length down to 1
\* and removes the first lis[i] it finds equal to fn; lis[lis.length] is
\* undefined, lis[0] is not looked at.
removeListener(lis, fn) ==
  LET hits == {idx \in 1..Len(lis) : idx < Len(lis) /\ lis[idx + 1] = fn}
  IN IF hits = {} THEN lis
     ELSE SpliceOne(lis, CHOOSE idx \in hits : \A other \in hits : other <= idx)

\* operation_manager.js:81-88: forEach visits the indexes in ascending
\* order as far as the array reaches when it gets to them; an onceWrapper
\* calls fn and then off(eventName, onceWrapper) on the array being visited.
RECURSIVE EmitFrom(_, _, _)
EmitFrom(lis, idx, calls) ==
  IF idx > Len(lis) THEN [lis |-> lis, calls |-> calls]
  ELSE LET f == lis[idx]
       IN EmitFrom(IF f.once # 0 THEN removeListener(lis, f) ELSE lis,
                   idx + 1, Append(calls, f.fn))

Occurs(lis, fn) == {n \in 1..Len(lis) : lis[n].fn = fn}

\* operation_manager.js:46-54: on(eventName, fn)
On ==
  \E eventName \in EventNames, fn \in Fns :
    /\ Len(ListenersOf(listeners, eventName)) < MaxListeners
    /\ listeners' = WithListeners(listeners, eventName,
                      Append(ListenersOf(listeners, eventName), Plain(fn)))
    /\ offed' = offed \ {<<eventName, fn>>}
    /\ lastEmit' = NoEmit
    /\ UNCHANGED onceMade
    /\ UNCHANGED notEventVars

\* operation_manager.js:56-64: once(eventName, fn)
Once ==
  \E eventName \in EventNames, fn \in Fns :
    /\ Len(ListenersOf(listeners, eventName)) < MaxListeners
    /\ onceMade < MaxOnce
    /\ onceMade' = onceMade + 1
    /\ listeners' = WithListeners(listeners, eventName,
                      Append(ListenersOf(listeners, eventName),
                             Wrapper(fn, onceMade + 1)))
    /\ offed' = offed \ {<<eventName, fn>>}
    /\ lastEmit' = NoEmit
    /\ UNCHANGED notEventVars

\* operation_manager.js:66-79: off(eventName, fn)
Off ==
  \E eventName \in EventNames, fn \in Fns :
    /\ listeners' = IF eventName \notin DOMAIN listeners THEN listeners
                    ELSE [listeners EXCEPT ![eventName] =
                            removeListener(@, Plain(fn))]
    /\ offed' = IF /\ Cardinality(Occurs(ListenersOf(listeners, eventName), fn)) = 1
                   /\ \E n \in 1..Len(ListenersOf(listeners, eventName)) :
                        listeners[eventName][n] = Plain(fn)
                THEN offed \cup {<<eventName, fn>>}
                ELSE offed
    /\ lastEmit' = NoEmit
    /\ UNCHANGED onceMade
    /\ UNCHANGED notEventVars

\* operation_manager.js:81-88: emit(eventName)
Emit ==
  \E eventName \in EventNames :
    /\ IF eventName \notin DOMAIN listeners
       THEN /\ lastEmit' = [event |-> eventName, calls |-> << >>]
            /\ UNCHANGED listeners
       ELSE LET run == EmitFrom(listeners[eventName], 1, << >>)
            IN /\ lastEmit' = [event |-> eventName, calls |-> run.calls]
               /\ listeners' = [listeners EXCEPT ![eventName] = run.lis]
    /\ UNCHANGED <<onceMade, offed>>
    /\ UNCHANGED notEventVars

\* operation_manager.js:41, 101: listeners = {}
EventsNew ==
  /\ listeners = [e \in {} |-> << >>]
  /\ onceMade = 0
  /\ lastEmit = NoEmit
  /\ offed = {}

\* --------------- data_view_reader (src/util/string_utils.js:220-433)
\* Buffers of every length up to MaxBytes: all zero bytes, text without a
\* zero byte, and text with a zero byte in every third place.
BufferKinds == {"zeros", "text", "strings"}
ByteOf(kind, n) ==
  CASE kind = "zeros" -> 0
    [] kind = "text" -> 1
    [] kind = "strings" -> IF n % 3 = 0 THEN 0 ELSE 1
Buffers ==
  {[n \in 1..len |-> ByteOf(kind, n)] : len \in 0..MaxBytes, kind \in BufferKinds}

\* Arguments of readBytes, skip, rewind and seek.
ByteCounts == -1..(MaxBytes + 1)

\* DataView.prototype.getUint8 / getUint16 / getUint32 / getInt32 throw a
\* RangeError unless the bytes read lie inside the view.
InView(data, pos, width) == pos >= 0 /\ pos + width <= Len(data)

\* DataView.prototype.getUint32(pos, littleEndian)
getUint32(data, pos, littleEndian) ==
  IF littleEndian
  THEN data[pos + 1] + data[pos + 2] * 256 + data[pos + 3] * 65536
         + data[pos + 4] * 16777216
  ELSE data[pos + 1] * 16777216 + data[pos + 2] * 65536 + data[pos + 3] * 256
         + data[pos + 4]

\* string_utils.js:412-420: the loop of readTerminatedString stops at the
\* first zero byte or at the end of the view.
RECURSIVE TerminatorAt(_, _)
TerminatorAt(data, pos) ==
  IF pos < Len(data) /\ data[pos + 1] # 0
  THEN TerminatorAt(data, pos + 1)
  ELSE pos

\* string_utils.js:247-255
ReadUint8 ==
  /\ IF InView(dataView_, position_, 1)
     THEN /\ position_' = position_ + 1
          /\ readerError' = ""
     ELSE /\ readerError' = "BUFFER_READ_OUT_OF_BOUNDS"
          /\ UNCHANGED position_
  /\ UNCHANGED <<dataView_, littleEndian_>>
  /\ UNCHANGED notReaderVars

\* string_utils.js:262-271
ReadUint16 ==
  /\ IF InView(dataView_, position_, 2)
     THEN /\ position_' = position_ + 2
          /\ readerError' = ""
     ELSE /\ readerError' = "BUFFER_READ_OUT_OF_BOUNDS"
          /\ UNCHANGED position_
  /\ UNCHANGED <<dataView_, littleEndian_>>
  /\ UNCHANGED notReaderVars

\* string_utils.js:278-287
ReadUint32 ==
  /\ IF InView(dataView_, position_, 4)
     THEN /\ position_' = position_ + 4
          /\ readerError' = ""
     ELSE /\ readerError' = "BUFFER_READ_OUT_OF_BOUNDS"
          /\ UNCHANGED position_
  /\ UNCHANGED <<dataView_, littleEndian_>>
  /\ UNCHANGED notReaderVars

\* string_utils.js:294-302
ReadInt32 ==
  /\ IF InView(dataView_, position_, 4)
     THEN /\ position_' = position_ + 4
          /\ readerError' = ""
     ELSE /\ readerError' = "BUFFER_READ_OUT_OF_BOUNDS"
          /\ UNCHANGED position_
  /\ UNCHANGED <<dataView_, littleEndian_>>
  /\ UNCHANGED notReaderVars

\* string_utils.js:309-340
ReadUint64 ==
  /\ IF ~InView(dataView_, position_, 8)
     THEN /\ readerError' = "BUFFER_READ_OUT_OF_BOUNDS"
          /\ UNCHANGED position_
     ELSE LET high == IF littleEndian_
                      THEN getUint32(dataView_, position_ + 4, TRUE)
                      ELSE getUint32(dataView_, position_, FALSE)
          IN IF high > 2097151
             THEN /\ readerError' = "JS_INTEGER_OVERFLOW"
                  /\ UNCHANGED position_
             ELSE /\ position_' = position_ + 8
                  /\ readerError' = ""
  /\ UNCHANGED <<dataView_, littleEndian_>>
  /\ UNCHANGED notReaderVars

\* string_utils.js:348-358
ReadBytes ==
  \E bytes \in ByteCounts :
    /\ IF bytes < 0
       THEN /\ readerError' = "AssertionError"
            /\ UNCHANGED position_
       ELSE IF position_ + bytes > Len(dataView_)
       THEN /\ readerError' = "BUFFER_READ_OUT_OF_BOUNDS"
            /\ UNCHANGED position_
       ELSE /\ position_' = position_ + bytes
            /\ readerError' = ""
    /\ UNCHANGED <<dataView_, littleEndian_>>
    /\ UNCHANGED notReaderVars

\* string_utils.js:365-371
Skip ==
  \E bytes \in ByteCounts :
    /\ IF bytes < 0
       THEN /\ readerError' = "AssertionError"
            /\ UNCHANGED position_
       ELSE IF position_ + bytes > Len(dataView_)
       THEN /\ readerError' = "BUFFER_READ_OUT_OF_BOUNDS"
            /\ UNCHANGED position_
       ELSE /\ position_' = position_ + bytes
            /\ readerError' = ""
    /\ UNCHANGED <<dataView_, littleEndian_>>
    /\ UNCHANGED notReaderVars

\* string_utils.js:379-385
Rewind ==
  \E bytes \in ByteCounts :
    /\ IF bytes < 0
       THEN /\ readerError' = "AssertionError"
            /\ UNCHANGED position_
       ELSE IF position_ < bytes
       THEN /\ readerError' = "BUFFER_READ_OUT_OF_BOUNDS"
            /\ UNCHANGED position_
       ELSE /\ position_' = position_ - bytes
            /\ readerError' = ""
    /\ UNCHANGED <<dataView_, littleEndian_>>
    /\ UNCHANGED notReaderVars

\* string_utils.js:392-398
Seek ==
  \E position \in ByteCounts :
    /\ IF position < 0
       THEN /\ readerError' = "AssertionError"
            /\ UNCHANGED position_
       ELSE IF position > Len(dataView_)
       THEN /\ readerError' = "BUFFER_READ_OUT_OF_BOUNDS"
            /\ UNCHANGED position_
       ELSE /\ position_' = position
            /\ readerError' = ""
    /\ UNCHANGED <<dataView_, littleEndian_>>
    /\ UNCHANGED notReaderVars

\* string_utils.js:407-424: the position moves to the terminator or to the
\* end of the view and then one further; nothing is thrown.  From a start
\* beyond the view buffer_utils.toUint8, which is not among the sources,
\* returns an empty array or throws.
ReadTerminatedString ==
  /\ position_ < Len(dataView_) + MaxBeyond
  /\ \/ /\ position_' = TerminatorAt(dataView_, position_) + 1
        /\ readerError' = ""
     \/ /\ position_ > Len(dataView_)
        /\ readerError' = "RangeError"
        /\ UNCHANGED position_
  /\ UNCHANGED <<dataView_, littleEndian_>>
  /\ UNCHANGED notReaderVars

\* string_utils.js:221-226: new data_view_reader(data, endianness)
ReaderNew(data, littleEndian) ==
  /\ dataView_ = data
  /\ littleEndian_ = littleEndian
  /\ position_ = 0
  /\ readerError = ""

ReaderParked == ReaderNew(<< >>, FALSE)

\* part_002:148-189: op2 = op1.chain(onSuccess, onError) has returned; op1
\* may have completed before.
ChainNew ==
  /\ promise \in {"pending", "fulfilled", "failed"}
  /\ aborted_ = FALSE
  /\ onError \in BOOLEAN
  /\ callbackRan = FALSE
  /\ abort = "this.abort"
  /\ newPromise = "pending"
  /\ ret = "none"
  /\ retPromise = "none"
  /\ chainCalls = [c \in ChainCallNames |-> 0]
  /\ abortedWhile = {}

\* No chain is made: neither the main loop nor dash_parser calls chain().
ChainParked ==
  /\ ChainNew
  /\ promise = "pending"
  /\ onError = FALSE

ExtraParked ==
  /\ ChainParked
  /\ OpsNew
  /\ CpParked
  /\ ReprParked
  /\ TimelineParked
  /\ SidxParked
  /\ TimerNew
  /\ EventsNew
  /\ ReaderParked

ParkedButChain ==
  /\ OpsNew
  /\ CpParked
  /\ ReprParked
  /\ TimelineParked
  /\ SidxParked
  /\ TimerNew
  /\ EventsNew
  /\ ReaderParked

ParkedButOps ==
  /\ ChainParked
  /\ CpParked
  /\ ReprParked
  /\ TimelineParked
  /\ SidxParked
  /\ TimerNew
  /\ EventsNew
  /\ ReaderParked

ParkedButCp ==
  /\ ChainParked
  /\ OpsNew
  /\ ReprParked
  /\ TimelineParked
  /\ SidxParked
  /\ TimerNew
  /\ EventsNew
  /\ ReaderParked

ParkedButRepr ==
  /\ ChainParked
  /\ OpsNew
  /\ CpParked
  /\ TimelineParked
  /\ SidxParked
  /\ TimerNew
  /\ EventsNew
  /\ ReaderParked

ParkedButTimeline ==
  /\ ChainParked
  /\ OpsNew
  /\ CpParked
  /\ ReprParked
  /\ SidxParked
  /\ TimerNew
  /\ EventsNew
  /\ ReaderParked

ParkedButSidx ==
  /\ ChainParked
  /\ OpsNew
  /\ CpParked
  /\ ReprParked
  /\ TimelineParked
  /\ TimerNew
  /\ EventsNew
  /\ ReaderParked

ParkedButTimer ==
  /\ ChainParked
  /\ OpsNew
  /\ CpParked
  /\ ReprParked
  /\ TimelineParked
  /\ SidxParked
  /\ EventsNew
  /\ ReaderParked

ParkedButEvents ==
  /\ ChainParked
  /\ OpsNew
  /\ CpParked
  /\ ReprParked
  /\ TimelineParked
  /\ SidxParked
  /\ TimerNew
  /\ ReaderParked

ParkedButReader ==
  /\ ChainParked
  /\ OpsNew
  /\ CpParked
  /\ ReprParked
  /\ TimelineParked
  /\ SidxParked
  /\ TimerNew
  /\ EventsNew

\* ------------------------------------------------------ specification
\* State after dashParser.start() and lines 93-113 of superparser.js.
InitLoop ==
  /\ manifestExpired = TRUE
  /\ pc = "select"
  /\ lowest = -1
  /\ highest = -1
  /\ bandwidthFilteredList = <<>>
  /\ targetVariant = NullVariant
  /\ mediaPLTemplate = [t \in Tracks |-> <<>>]
  /\ key = NullKey
  /\ keyId = NullKey
  /\ lastSegmentURI = [t \in Tracks |-> NullURI]
  /\ segmentUrlList = [t \in Tracks |-> <<>>]
  /\ decryptKey = "undefined"
  /\ i = 0
  /\ j = 0
  /\ lastURI = [t \in Tracks |-> NullURI]
  /\ files = [t \in Tracks |-> {}]
  /\ emitted = [t \in Tracks |-> <<>>]
  /\ evictions = [t \in Tracks |-> 0]
  /\ expiredOnEntry = TRUE
  /\ keyFetched = FALSE
  /\ cycleSegs = 0
  /\ done = [t \in Tracks |-> 0]
  /\ expiryFound = FALSE
  /\ masterWrites = 0
  /\ headerInits = 0
  /\ firstCycle = TRUE
  /\ err = ""

\* The live stream and the window size vary; one variant is on offer.
Init ==
  /\ InitLoop
  /\ ParserAfterStart
  /\ ManagerNew
  /\ ExtraParked
  /\ confBandwidth = "low"
  /\ confLang = <<"en">>
  /\ maxSegmentNum \in 1..MaxSegmentNum
  /\ initSegmentName = initFile
  /\ variants \in {<<Variant(1, lang)>> : lang \in Languages}
  /\ hi \in [Tracks -> 1..MaxId]
  /\ endPlayTime \in 0..MaxId

\* The manifest's variants and the selection options vary; the live
\* stream has ended at MaxId.
InitSelect ==
  /\ InitLoop
  /\ ParserAfterStart
  /\ ManagerNew
  /\ ExtraParked
  /\ confBandwidth \in BandwidthOptions
  /\ confLang \in LangOptions
  /\ maxSegmentNum = 1
  /\ initSegmentName = initFile
  /\ variants \in VariantLists
  /\ hi = [t \in Tracks |-> MaxId]
  /\ endPlayTime = MaxId

Next ==
  \/ SelectVariant
  \/ InitMediaPlaylists
  \/ GetDecryptionKey
  \/ NewSegmentSaver
  \/ ProcessSegment
  \/ FinishDownload
  \/ CheckExpiry
  \/ RequestManifest

Spec == Init /\ [][Next]_vars
SpecSelect == InitSelect /\ [][Next]_vars

\* The file name of the Init segment URL varies as well; the live stream
\* has ended at MaxId.
InitNamed ==
  /\ InitLoop
  /\ ParserAfterStart
  /\ ManagerNew
  /\ ExtraParked
  /\ confBandwidth = "low"
  /\ confLang = <<"en">>
  /\ maxSegmentNum \in 1..MaxSegmentNum
  /\ initSegmentName \in InitNames
  /\ variants = <<Variant(1, "en")>>
  /\ hi \in [Tracks -> 1..MaxId]
  /\ endPlayTime = MaxId

SpecNamed == InitNamed /\ [][Next]_vars

\* The main loop at rest, for the specifications of single classes.
LoopParked ==
  /\ InitLoop
  /\ confBandwidth = "low"
  /\ confLang = <<"en">>
  /\ maxSegmentNum = 1
  /\ initSegmentName = initFile
  /\ variants = << >>
  /\ hi = [t \in Tracks |-> 1]
  /\ endPlayTime = 0

\* dash_parser on its own: constructed, started, driven by its timer and
\* stopped by its owner.
InitParser ==
  /\ LoopParked
  /\ ParserNew
  /\ ManagerNew
  /\ ExtraParked

NextParser ==
  \/ StartParser
  \/ UriResponse
  \/ FetchResponse
  \/ CombineDone
  \/ CreateSegmentIndex
  \/ SetUpdateTimer
  \/ OnUpdate
  \/ Stop

SpecParser == InitParser /\ [][NextParser]_vars

\* One chained operation: op1 and what its callback returns settle, the
\* owner of op2 aborts it at any moment.
InitChain ==
  /\ LoopParked
  /\ ParserNew
  /\ ManagerNew
  /\ ChainNew
  /\ ParkedButChain

NextChain ==
  \/ SettleOp1
  \/ ChainCallback
  \/ SettleRet
  \/ Adopt
  \/ Abort

SpecChain == InitChain /\ [][NextChain]_vars

\* One operation_manager and the operations handed to it.
InitManager ==
  /\ LoopParked
  /\ ParserNew
  /\ ManagerNew
  /\ ExtraParked

NextManager ==
  \/ Manage
  \/ SettleOp
  \/ OnFinal
  \/ Destroy

SpecManager == InitManager /\ [][NextManager]_vars

\* The ContentProtection elements of one AdaptationSet after another, each
\* with its Representations.
InitDrm ==
  /\ LoopParked
  /\ ParserNew
  /\ ManagerNew
  /\ ParkedButCp
  /\ \E elems \in ElemLists : CpNew(elems)

NextDrm ==
  \/ ParseFromAdaptationSet
  \/ ParseFromRepresentation

SpecDrm == InitDrm /\ [][NextDrm]_vars

\* The Representations of one AdaptationSet, one after another.
InitRepr ==
  /\ LoopParked
  /\ ParserNew
  /\ ManagerNew
  /\ ParkedButRepr
  /\ \E f \in Frames : ReprNew(f)

NextRepr ==
  \/ CreateFrame
  \/ VerifyRepresentation

SpecRepr == InitRepr /\ [][NextRepr]_vars

\* createTimeline on any SegmentTimeline of up to MaxS elements.
InitTimeline ==
  /\ LoopParked
  /\ ParserNew
  /\ ManagerNew
  /\ ParkedButTimeline
  /\ \E points \in STimelines, offset \in Offsets, period \in PeriodDurations :
       TimelineNew(points, offset, period)

NextTimeline ==
  \/ TimePoint
  \/ ReturnTimeline

SpecTimeline == InitTimeline /\ [][NextTimeline]_vars

\* parseSIDX_ on any SIDX box of up to MaxRefs entries.
InitSidx ==
  /\ LoopParked
  /\ ParserNew
  /\ ManagerNew
  /\ ParkedButSidx
  /\ \E b \in SidxBoxes, offset \in {0, 800} : SidxNew(b, offset)

NextSidx ==
  \/ SidxHeader
  \/ SidxReference
  \/ SidxReturn

SpecSidx == InitSidx /\ [][NextSidx]_vars

\* timer on its own: any sequence of tickNow, tickAfter, tickEvery and
\* stop, with the timeouts running out in between.
InitTimer ==
  /\ LoopParked
  /\ ParserNew
  /\ ManagerNew
  /\ ParkedButTimer
  /\ TimerNew

NextTimer ==
  \/ TickNow
  \/ TickAfter
  \/ TickEvery
  \/ TimerStop
  \/ DelayedTickFires

SpecTimer == InitTimer /\ [][NextTimer]_vars

\* sp_events_manager on its own: on, once, off and emit in any order.
InitEvents ==
  /\ LoopParked
  /\ ParserNew
  /\ ManagerNew
  /\ ParkedButEvents
  /\ EventsNew

NextEvents ==
  \/ On
  \/ Once
  \/ Off
  \/ Emit

SpecEvents == InitEvents /\ [][NextEvents]_vars

\* data_view_reader on its own: a reader over any of the buffers, and any
\* sequence of its operations.
InitReader ==
  /\ LoopParked
  /\ ParserNew
  /\ ManagerNew
  /\ ParkedButReader
  /\ \E data \in Buffers, littleEndian \in BOOLEAN : ReaderNew(data, littleEndian)

NextReader ==
  \/ ReadUint8
  \/ ReadUint16
  \/ ReadUint32
  \/ ReadInt32
  \/ ReadUint64
  \/ ReadBytes
  \/ Skip
  \/ Rewind
  \/ Seek
  \/ ReadTerminatedString

SpecReader == InitReader /\ [][NextReader]_vars

\* ------------------------------------------------------------- claims
Playlist(t) == [n \in 1..Len(SegmentItemList(mediaPLTemplate[t])) |->
                  SegmentItemList(mediaPLTemplate[t])[n].uri]
Listed(t) == {Playlist(t)[n] : n \in 1..Len(Playlist(t))}
Bootstrapped(t) == Len(mediaPLTemplate[t]) > 0
MediaSequence(t) == mediaPLTemplate[t][1].seq
ResumedCycle(t) == pc = "download" /\ lastSegmentURI[t] \in 1..MaxId

\* C1: for each track, after every segment download_segments appends, in
\* every cycle, the media playlist holds at most maxSegmentNum #EXTINF
\* entries.
C1_QueueLengthBounded ==
  \A t \in Tracks : Len(Playlist(t)) <= maxSegmentNum

\* C1 witness: a later cycle has appended to a full playlist (one entry
\* was evicted for it) and the playlist holds exactly maxSegmentNum entries.
C1_Witness ==
  \E t \in Tracks :
    /\ ResumedCycle(t)
    /\ lastURI[t] \in 1..MaxId
    /\ maxSegmentNum >= 2
    /\ evictions[t] >= 1
    /\ Len(Playlist(t)) = maxSegmentNum

\* C2: for each track, once the header exists its #EXT-X-MEDIA-SEQUENCE
\* equals the number of #EXTINF entries evicted from that playlist so far.
C2_MediaSequenceCountsEvictions ==
  \A t \in Tracks :
    Bootstrapped(t) =>
      /\ mediaPLTemplate[t][1].kind = "header"
      /\ MediaSequence(t) = evictions[t]

\* C2 witness: two evictions have happened on a track, the later one in a
\* cycle that resumed after an earlier one.
C2_Witness ==
  \E t \in Tracks :
    /\ ResumedCycle(t)
    /\ lastURI[t] \in 1..MaxId
    /\ evictions[t] >= 2
    /\ MediaSequence(t) = 2

\* C3: eviction is FIFO.  After k emissions on a track the playlist lists
\* the last min(k, maxSegmentNum) emitted segments in emission order, the
\* media sequence is k - min(k, maxSegmentNum), and the file of every
\* emitted segment that is no longer listed has been unlinked.
C3_FifoEviction ==
  \A t \in Tracks :
    LET k == Len(emitted[t])
        kept == Min(k, maxSegmentNum)
    IN /\ Playlist(t) = SubSeq(emitted[t], k - kept + 1, k)
       /\ Bootstrapped(t) => MediaSequence(t) = k - kept
       /\ \A n \in 1..k : emitted[t][n] \notin Listed(t) => emitted[t][n] \notin files[t]
       /\ Listed(t) \subseteq files[t]

\* C3 witness: maxSegmentNum = 3 and five emissions on both tracks leave
\* the third to fifth emitted segments, media sequence 2, and the files of
\* the first two deleted.
C3_Witness ==
  /\ maxSegmentNum = 3
  /\ \A t \in Tracks :
       /\ Len(emitted[t]) = 5
       /\ Playlist(t) = SubSeq(emitted[t], 3, 5)
       /\ MediaSequence(t) = 2
       /\ emitted[t][1] \notin files[t]
       /\ emitted[t][2] \notin files[t]

\* C4: in a cycle that starts with manifestExpired = TRUE, no segment is
\* downloaded before get_decryption_key has returned, and manifestExpired
\* is false from the moment the key is recorded.
C4_KeyBeforeSegments ==
  /\ (expiredOnEntry /\ (cycleSegs > 0 \/ pc = "download")) => keyFetched
  /\ keyFetched => ~manifestExpired

\* C4 witness: a cycle entered with the flag set has fetched the key and is
\* past its first download, the flag cleared.
C4_Witness ==
  /\ expiredOnEntry
  /\ keyFetched
  /\ ~manifestExpired
  /\ pc = "download"
  /\ cycleSegs > 0

\* C5: when the end-of-cycle check finds the manifest expired, the
\* manifest-URL API is called again and manifestExpired is set (and stays
\* set until the key fetch of the next cycle), the main loop going on.
C5_ExpiryRefetchesManifestUri ==
  expiryFound => (manifestExpired /\ err # "TypeError")

\* C6: a null answer of get_decryption_key is fatal for the cycle: no
\* segment is downloaded, decrypted or appended while the key is null.
C6_NullKeyIsFatal ==
  (keyFetched /\ key = NullKey) => (cycleSegs = 0 /\ pc # "download")

\* The positions (1-based) of the index of track t and their URIs.
Index(t) == References(hi[t])
UrisFrom(refs, first) == [n \in 1..(Len(refs) - first + 1) |-> refs[first + n - 1].uri]
Selected(t) == Tail(segmentUrlList[t])

\* C7: resumption.  When lastSegmentURI of a track is the URI of the
\* reference at position p of the current index, the media segments
\* selected for the track are exactly the references after p, in order.
C7_ResumeAfterLastSegment ==
  pc = "download" =>
    \A t \in Tracks : \A p \in 1..Len(Index(t)) :
      Index(t)[p].uri = lastSegmentURI[t] =>
        Selected(t) = UrisFrom(Index(t), p + 1)

\* C7 witness: the last URI is found in the middle of the index, before at
\* least two newer references.
C7_Witness ==
  /\ pc = "download"
  /\ \E t \in Tracks : \E p \in 2..Len(Index(t)) :
       /\ Index(t)[p].uri = lastSegmentURI[t]
       /\ Len(Selected(t)) >= 2

\* The 0-based indexes k of the claim: k + maxSegmentNum < total and the
\* reference at k + maxSegmentNum ends after the availability end.
StartCandidates(refs) ==
  {k \in 0..(Len(refs) - 1) :
     /\ k + maxSegmentNum < Len(refs)
     /\ refs[k + maxSegmentNum + 1].endTime > endPlayTime}

\* C8: first start.  With no prior lastSegmentURI, emission begins at the
\* earliest index k of StartCandidates: reference k and all later
\* references are selected, in order, and none before k.
C8_FirstStartBeginsAtK ==
  pc = "download" =>
    \A t \in Tracks :
      (lastSegmentURI[t] = NullURI /\ StartCandidates(Index(t)) # {}) =>
        LET k == CHOOSE c \in StartCandidates(Index(t)) :
                   \A d \in StartCandidates(Index(t)) : c <= d
        IN Selected(t) = UrisFrom(Index(t), k + 1)

Selected5 == lowest # -1 /\ Len(variants) = 5

InTier == {bandwidthFilteredList[m] : m \in 1..Len(bandwidthFilteredList)}
Matching == {v \in InTier : v.language \in LangSet(confLang)}
NothingProcessed ==
  /\ cycleSegs = 0
  /\ \A t \in Tracks : emitted[t] = <<>> /\ files[t] = {} /\ mediaPLTemplate[t] = <<>>

\* C10: the chosen variant is a variant of the tier whose audio language is
\* configured and no such variant of the tier has a higher bandwidth; when
\* the tier has no variant with a configured language the process exits
\* and no segment is processed.
C10_HighestMatchingVariant ==
  lowest # -1 =>
    IF Matching = {}
    THEN /\ targetVariant = NullVariant
         /\ pc = "exited"
         /\ err = "No language matching variants..."
         /\ NothingProcessed
    ELSE /\ targetVariant \in Matching
         /\ \A v \in Matching : v.bandwidth <= targetVariant.bandwidth
         /\ pc # "exited"

\* C10 witness: the tier holds matching variants of two bandwidths, the
\* higher one is chosen and the cycle has gone on to download.
C10_Witness ==
  /\ lowest # -1
  /\ pc = "download"
  /\ cycleSegs > 0
  /\ targetVariant \in Matching
  /\ \E v \in Matching : v.bandwidth < targetVariant.bandwidth

\* C11: the step in which the merge or the decrypter fails ends the cycle
\* with SEGMENT_MANIPULATION_FAILED and leaves the playlists as they were:
\* nothing appended, nothing evicted, the media sequence not incremented.
C11_FailedSegmentLeavesPlaylist ==
  [][(err' = "SEGMENT_MANIPULATION_FAILED" /\ err = "") =>
       /\ pc = "download" /\ pc' = "crashed"
       /\ mediaPLTemplate' = mediaPLTemplate
       /\ evictions' = evictions
       /\ emitted' = emitted]_vars

\* C11 witness: a media segment failed while its playlist was full, where
\* an append would have evicted an entry and raised the media sequence.
C11_Witness ==
  /\ err = "SEGMENT_MANIPULATION_FAILED"
  /\ pc = "crashed"
  /\ BufferFull(mediaPLTemplate[SlotTrack], maxSegmentNum)
  /\ lastURI[SlotTrack] \in 1..MaxId
  /\ lastURI[SlotTrack] \notin Listed(SlotTrack)
  /\ MediaSequence(SlotTrack) >= 1

\* C12: master.m3u8 and the two media playlist headers are written at most
\* once, by the first pass of the main loop and by every first pass that
\* gets as far as the key request; no later pass writes them again, and a
\* header, once there, stays first in its playlist with a media sequence
\* that never goes down.
C12_PlaylistsInitialisedOnce ==
  /\ [](/\ masterWrites <= 1
        /\ headerInits <= 1
        /\ (pc \notin {"select", "playlist", "exited"} \/ ~firstCycle) =>
             (masterWrites = 1 /\ headerInits = 1))
  /\ [][/\ (masterWrites' # masterWrites \/ headerInits' # headerInits) => firstCycle
        /\ \A t \in Tracks : Bootstrapped(t) =>
             /\ Len(mediaPLTemplate'[t]) > 0
             /\ mediaPLTemplate'[t][1].kind = "header"
             /\ mediaPLTemplate'[t][1].seq >= MediaSequence(t)]_vars

\* C12 witness: a later pass has gone through the bootstrap step with the
\* media sequence of both playlists already raised, and is downloading.
C12_Witness ==
  /\ ~firstCycle
  /\ pc = "download"
  /\ cycleSegs > 0
  /\ masterWrites = 1
  /\ headerInits = 1
  /\ \A t \in Tracks : MediaSequence(t) >= 1

\* Processing of a segment of track t begins in this step.
Begins(t) == pc = "download" /\ lastURI'[t] # lastURI[t] /\ lastURI'[t] # NullURI

\* C13: within a cycle the audio segment of slot k is completed before the
\* video segment of slot k is begun, and both are completed before a
\* segment of slot k + 1 is begun.
C13_AudioThenVideoPerSlot ==
  /\ [](pc = "download" =>
          /\ done["video"] <= done["audio"]
          /\ done["audio"] <= done["video"] + 1
          /\ done["video"] = i)
  /\ [][/\ Begins("audio") => (done["audio"] = i /\ done["video"] = i)
        /\ Begins("video") => (done["audio"] = i + 1 /\ done["video"] = i)
        /\ \A t \in Tracks : done'[t] > done[t] =>
              (Begins(t) /\ done'[t] = done[t] + 1)]_vars

\* C13 witness: in a cycle with at least two media slots the audio segment
\* of the third slot is complete and the video segment of it is next.
C13_Witness ==
  /\ pc = "download"
  /\ i = 2
  /\ done["audio"] = 3
  /\ done["video"] = 2
  /\ lastURI["audio"] \in 1..MaxId
  /\ lastURI["audio"] \in Listed("audio")
  /\ lastURI["video"] \in 1..MaxId
  /\ Len(segmentUrlList["video"]) > 2

C15_StopLeavesParserEmpty ==
  (stopped /\ started = "yes") =>
    /\ wasStored \subseteq released
    /\ DOMAIN streamMap_ = {}
    /\ manifest_ = "null"
    /\ manifestUri_ = "null"
    /\ updateTimer_ # "armed"
    /\ operations_ = << >>

\* C16: a run of onUpdate_ on a parser that has not been stopped ends with
\* the update timer armed again (or, when the manifest parsed in the run
\* has no minimumUpdatePeriod, without a timer), whatever failed in it.
C16_OnUpdateRearmsTimer ==
  (~stopped /\ runner = "none") => onUpdateEnd \notin Rejections

\* C17: but for stop(), a stream stored in the stream map stays under its
\* context id, the same stream object with the same segmentIndex object
\* once it has one, through every later parse; and every parse has called
\* evict() on each segmentIndex stored when it began, before it parsed the
\* Representations.
C17_StreamMapKeepsStreams ==
  /\ [][stopped' = stopped =>
          \A k \in DOMAIN streamMap_ :
            /\ k \in DOMAIN streamMap_'
            /\ streamMap_'[k].id = streamMap_[k].id
            /\ streamMap_[k].segmentIndex # 0 =>
                 streamMap_'[k].segmentIndex = streamMap_[k].segmentIndex]_vars
  /\ [](lastParse.stored \subseteq lastParse.evicted)

\* C17 witness: an update of a dynamic manifest has parsed again a
\* Representation whose stream was stored with a segmentIndex; evict() was
\* called on that index and the stored stream still holds it.
C17_Witness ==
  /\ ~stopped
  /\ lastParse.n >= 2
  /\ lastParse.refresh
  /\ lastParse.dynamic
  /\ \E k \in lastParse.reps \cap lastParse.keysBefore :
       /\ k \in DOMAIN streamMap_
       /\ streamMap_[k].segmentIndex # 0
       /\ streamMap_[k].segmentIndex \in lastParse.evicted
       /\ streamMap_[k].id < globalId_ - 1


\* A step in which op2.abort() is called.
AbortStep == chainCalls'["op2.abort"] = chainCalls["op2.abort"] + 1

\* C18 (as stated): whenever op2.abort() was called while op2.promise had
\* not settled, op2.promise settles only by rejecting with
\* OPERATION_ABORTED, whatever the callback returned.
C18_AbortRejectsAtEveryStage ==
  (abortedWhile # {} /\ newPromise \in Settled)
    => newPromise = "OPERATION_ABORTED"

\* C18 (amended): op2.abort() acts on the stage it finds.  Before a
\* callback has returned it rejects op2.promise with OPERATION_ABORTED and
\* calls op1.abort(), and onSuccess is never called.  After the callback
\* has returned an abortable operation it calls abort() on that operation
\* and leaves op2.promise to it.  After the callback has returned a Promise
\* it aborts nothing.  In the last two cases op2.promise settles as the
\* returned operation or Promise settles.
C18_AbortFollowsStage ==
  /\ [][AbortStep =>
          /\ Stage = "op1" =>
               /\ chainCalls'["op1.abort"] = chainCalls["op1.abort"] + 1
               /\ chainCalls'["ret.abort"] = chainCalls["ret.abort"]
               /\ newPromise = "pending" => newPromise' = "OPERATION_ABORTED"
          /\ IsOperation(Stage) =>
               /\ chainCalls'["ret.abort"] = chainCalls["ret.abort"] + 1
               /\ chainCalls'["op1.abort"] = chainCalls["op1.abort"]
               /\ newPromise' = newPromise
          /\ (Stage # "op1" /\ ~IsOperation(Stage)) =>
               /\ chainCalls'["ret.abort"] = chainCalls["ret.abort"]
               /\ chainCalls'["op1.abort"] = chainCalls["op1.abort"]
               /\ newPromise' = newPromise]_vars
  /\ []("op1" \in abortedWhile =>
          /\ chainCalls["onSuccess"] = 0
          /\ newPromise = "OPERATION_ABORTED")
  /\ []((abortedWhile # {} /\ "op1" \notin abortedWhile
         /\ newPromise \in Settled) => newPromise = retPromise)
  /\ []((ret = "operation" /\ chainCalls["ret.abort"] > 0
         /\ "operation" \in abortedWhile /\ newPromise \in Settled
         /\ newPromise # "OPERATION_ABORTED")
          => retPromise = newPromise)

\* op2.abort() was called while the Promise onSuccess returned was
\* pending; nothing was aborted and op2.promise is fulfilled.
C18_Witness ==
  /\ abortedWhile = {"Promise"}
  /\ chainCalls["onSuccess"] = 1
  /\ chainCalls["ret.abort"] = 0
  /\ chainCalls["op1.abort"] = 0
  /\ newPromise = "fulfilled"


\* What destroy() does to the calls of abort(): one more for every
\* operation in the list.
AbortedOnce ==
  \A q \in OpIds :
    abortCalls'[q] = abortCalls[q] + (IF InList(operations_, q) THEN 1 ELSE 0)

\* C19: a managed operation leaves the managed set only once its promise
\* has settled, or by destroy(); once its finally() callback has run it is
\* out of the set; destroy() calls abort() exactly once on every operation
\* in the set and on no other, and leaves the set empty.
C19_ManagedUntilSettledAbortedOnce ==
  /\ [][/\ \A o \in OpIds :
             (InList(operations_, o) /\ ~InList(operations_', o)) =>
               \/ /\ opPromise[o] \in Settled
                  /\ abortCalls' = abortCalls
               \/ /\ operations_' = << >>
                  /\ AbortedOnce
        /\ abortCalls' # abortCalls => (operations_' = << >> /\ AbortedOnce)]_vars
  /\ [](\A o \in managed :
          /\ (opPromise[o] = "pending" /\ abortCalls[o] = 0)
               => InList(operations_, o)
          /\ o \notin finalPending => ~InList(operations_, o))
  /\ [](\A o \in OpIds : /\ abortCalls[o] <= 1
                         /\ InList(operations_, o) => o \in managed)

\* destroy() has aborted one operation that was pending in the set, after
\* another had settled and left the set.
C19_Witness ==
  /\ operations_ = << >>
  /\ \E o \in managed, q \in managed :
       /\ abortCalls[o] = 1
       /\ opPromise[o] = "pending"
       /\ abortCalls[q] = 0
       /\ opPromise[q] \in Settled
       /\ q \notin finalPending


\* C20 (as stated): when every element names a known key system, the
\* AdaptationSet lists some and the latest Representation lists some, then
\* either no key system is common to the AdaptationSet and the
\* Representations parsed so far and DASH_NO_COMMON_KEY_SYSTEM was thrown,
\* or the effective DrmInfos are exactly the common key systems.  For the
\* AdaptationSet {Widevine, PlayReady} and a first Representation
\* {Widevine} that is {Widevine}, and an error after a second
\* Representation {PlayReady}.
C20_EffectiveSetIsIntersection ==
  (cpHistory.known /\ cpHistory.as # {} /\ cpHistory.last # {}
   /\ repsParsed > 0)
    => IF cpHistory.common = {}
         THEN cpError = "DASH_NO_COMMON_KEY_SYSTEM"
         ELSE /\ cpError = ""
              /\ Range(context.drmInfos) = cpHistory.common


\* C21 (as stated): a Representation is accepted exactly when its frame
\* carries one segment source, or none and it is text or application.
C21_RejectsUnlessExactlyOne ==
  verified # "pending" =>
    (verified = "accepted"
       <=> (SourceCount(frameIn) = 1
            \/ (SourceCount(frameIn) = 0 /\ IsText(frameIn))))

\* C21 (amended): a Representation is rejected, and no Stream produced,
\* exactly when its frame carries no segment source and it is neither text
\* nor application.  With two or more sources it is accepted: SegmentBase
\* is kept if present, else SegmentList, the others are dropped, and the
\* Stream is built from the one kept.
C21_RejectsOnlyWithoutSource ==
  /\ [](verified # "pending" =>
          /\ verified = "rejected"
               <=> (SourceCount(frameIn) = 0 /\ ~IsText(frameIn))
          /\ (verified = "accepted" /\ SourceCount(frameIn) >= 1) =>
               /\ SourceCount(frame) = 1
               /\ frame.segmentBase = frameIn.segmentBase
               /\ frame.segmentList
                    = (frameIn.segmentList /\ ~frameIn.segmentBase)
               /\ streams[Len(streams)] = StreamSource(frame)
          /\ (verified = "accepted" /\ SourceCount(frameIn) = 0) =>
               streams[Len(streams)] = "single")
  /\ [][(verified = "pending" /\ verified' # "pending") =>
          Len(streams') = Len(streams)
            + (IF verified' = "accepted" THEN 1 ELSE 0)]_vars

\* A Representation with SegmentList and SegmentTemplate was accepted and
\* its Stream built from the SegmentList.
C21_Witness ==
  /\ verified = "accepted"
  /\ ~frameIn.segmentBase /\ frameIn.segmentList /\ frameIn.segmentTemplate
  /\ ~frame.segmentTemplate
  /\ streams # << >>
  /\ streams[Len(streams)] = "segmentList"


\* C22 (as stated): at every moment the timeline is ordered and free of
\* gaps turned into overlaps: every entry has start < end, and every entry
\* ends no later than the next one starts; so the entries of an S element
\* with a negative @r end by the start of the next S element.
C22_TimelineOrdered ==
  /\ \A k \in 1..Len(timeline) : timeline[k].start < timeline[k].end
  /\ \A k \in 1..(Len(timeline) - 1) :
       timeline[k].end <= timeline[k + 1].start


\* C23 (as stated): for a SIDX box with a timescale whose entries all
\* have reference_type 0, parseSIDX_ does not throw and, once it has
\* returned, there is one reference per entry; the first reference starts
\* at sidxOffset + box size + first_offset, reference k covers
\* [startByte_k .. startByte_k + size_k - 1], the next one starts at
\* startByte_k + size_k, and the times are contiguous.
C23_SidxReferencesContiguous ==
  (box.timescale # 0
   /\ \A k \in 1..Len(box.entries) : box.entries[k].type = 0)
    => /\ sidxError = ""
       /\ sidxPc = "returned" => Len(references) = Len(box.entries)
       /\ references # << >> =>
            references[1].startByte
              = sidxOffset + box.size + box.firstOffset
       /\ \A k \in 1..Len(references) :
            /\ references[k].endByte
                 = references[k].startByte + box.entries[k].size - 1
            /\ k < Len(references) =>
                 /\ references[k + 1].startByte
                      = references[k].startByte + box.entries[k].size
                 /\ references[k + 1].startTime = references[k].endTime


\* C24 (as stated): the lastSegmentURI handed from one cycle to the next
\* is, for each track, null or the media segment emitted last for that
\* track; it is never a value no reference of an index can match, which
\* would keep every later segment list at the Init segment alone.
C24_LastSegmentURIIsLastEmitted ==
  \A t \in Tracks :
    \/ lastSegmentURI[t] = NullURI
    \/ /\ emitted[t] # << >>
       /\ lastSegmentURI[t] = emitted[t][Len(emitted[t])]


\* C25: between two cycles, as long as no error has ended the process,
\* the audio and the video playlist hold the same number of #EXTINF
\* entries and the same #EXT-X-MEDIA-SEQUENCE value.
C25_PlaylistsInStep ==
  (pc \notin {"download", "crashed"} /\ mediaPLTemplate["audio"] # << >>
   /\ mediaPLTemplate["video"] # << >>) =>
    /\ Len(SegmentItemList(mediaPLTemplate["audio"]))
         = Len(SegmentItemList(mediaPLTemplate["video"]))
    /\ mediaPLTemplate["audio"][1].seq = mediaPLTemplate["video"][1].seq

\* A cycle has ended without error in which the video list was longer
\* than the audio list: audio reached its newest reference, video did not,
\* and entries have been evicted.
C25_Witness ==
  /\ pc = "expiry"
  /\ err = ""
  /\ lastSegmentURI["audio"] = hi["audio"]
  /\ lastSegmentURI["video"] \in 1..(hi["video"] - 1)
  /\ evictions["audio"] >= 1
  /\ Len(emitted["video"]) = Len(emitted["audio"])

\* C26: in every cycle slot 0 of each track, the Init segment, is only
\* downloaded: it is never merged, decrypted or appended to the media
\* playlist as an #EXTINF entry, whatever the file name of its URL is.
C26_InitSegmentOnlyDownloaded ==
  \A t \in Tracks :
    /\ \A n \in 1..Len(emitted[t]) : emitted[t][n] # InitURI
    /\ InitURI \notin Listed(t)

\* C27: for every variant count n >= 3 and each tier low, mid, high the
\* index range of the bandwidth-tier split is non-empty, and the three
\* ranges together cover every index 0..n-1 exactly once.
C27_TiersPartitionVariants ==
  LET n == Len(variants)
      tiers == {"low", "mid", "high"}
  IN (lowest # -1 /\ n >= 3 /\ confBandwidth \in tiers) =>
       /\ lowest <= highest
       /\ \A b \in tiers : TierLowest(b, n) <= TierHighest(b, n)
       /\ \A idx \in 0..(n - 1) :
            Cardinality({b \in tiers :
              TierLowest(b, n) <= idx /\ idx <= TierHighest(b, n)}) = 1

PendingTicks == {id \in 1..Len(ticks) : ticks[id].pending}

\* C28: after any sequence of tickAfter, tickEvery, tickNow and stop at
\* most one delayed tick is pending, each scheduling call having cancelled
\* the one before; once stop() has run, onTick is not invoked until the
\* next tickAfter, tickEvery or tickNow.
C28_AtMostOnePendingTick ==
  /\ [](Cardinality(PendingTicks) <= 1)
  /\ [](timerStopped => PendingTicks = {})
  /\ [][(timerStopped /\ timerStopped') => onTicks' = onTicks]_vars

\* C28 witness: a second scheduling call, a tickEvery, has been made while
\* the first delayed tick had not fired; only the second one is pending.
C28_Witness ==
  /\ Len(ticks) = 2
  /\ onTicks = 0
  /\ PendingTicks = {2}
  /\ ticks[2].every
  /\ ticker_ = 2

\* C29: after off(eventName, fn) for a function fn registered with on, a
\* later emit(eventName) does not invoke fn, whatever the position of fn in
\* the listener array (first or only included); the other listeners of the
\* event and those of other events stay registered.
C29_OffRemovesListener ==
  /\ [](\A n \in 1..Len(lastEmit.calls) :
          <<lastEmit.event, lastEmit.calls[n]>> \notin offed)
  /\ [][\A eventName \in EventNames, fn \in Fns :
          (offed' = offed \cup {<<eventName, fn>>} /\ offed' # offed) =>
            /\ \A e \in DOMAIN listeners \ {eventName} :
                 listeners'[e] = listeners[e]
            /\ \A g \in Fns \ {fn} :
                 Cardinality(Occurs(listeners'[eventName], g))
                   = Cardinality(Occurs(listeners[eventName], g))]_vars

\* C30: after any sequence of reader operations 0 <= position <= L, the
\* byte length of the view; an operation that fails with
\* BUFFER_READ_OUT_OF_BOUNDS or JS_INTEGER_OVERFLOW leaves the position
\* where it was.
C30_PositionInsideView ==
  /\ [](0 <= position_ /\ position_ <= Len(dataView_))
  /\ [][readerError' \in {"BUFFER_READ_OUT_OF_BOUNDS", "JS_INTEGER_OVERFLOW"}
          => position_' = position_]_vars
====
